---- MODULE Spec2Model ----
(***************************************************************************)
(* Opponent selection and attack-history subsystem of gladiatus-automator. *)
(*                                                                         *)
(* JavaScript objects are modelled as functions whose DOMAIN is the set of *)
(* their own keys: obj[k] is defined exactly when k \in DOMAIN obj, and    *)
(* the empty object {} is the function with the empty domain.              *)
(***************************************************************************)
EXTENDS Integers, Sequences, FiniteSets, TLC

VARIABLES
    variant,        \* which storage build the page runs: "flat" (storage.js) or "report" (part_001)
    stored,         \* chrome.storage.local entry gladex_turma_history
    settingsStored, \* whether chrome.storage.local holds gladex_settings
    mem,            \* window.turmaAttackHistory of each page context
    phase,          \* per page context: "closed" before initExtension has run, then "ready"
    calls,          \* log of the updateTurmaAttackHistory calls made so far
    loads,          \* number of page loads so far
    page,           \* .attack elements under the container handed to selectOptimalAttack
    sel,            \* state of the running selectOptimalAttack promise
    runs,           \* settled selectOptimalAttack calls on this page, oldest first
    timeLocked,     \* window.timeLocked
    timers,         \* pending unlock timers set by handleMutation, in firing order
    microtasks,     \* handleMutation invocations suspended at their await, in resumption order
    batch,          \* mutations of the running onMutations callback not yet handed to handleMutation
    invoked,        \* number of handleMutation invocations made so far
    lastInvocation, \* what the most recent handleMutation invocation saw and did
    now,            \* milliseconds since the page was opened
    forceReload,    \* window.settings.forceReload
    storedForceReload, \* forceReload of the persisted gladex_settings
    handled,        \* log of the report pages handleReportCase has run on
    lastReadFailed,      \* whether the latest storage read callback saw chrome.runtime.lastError
    historyLoad,    \* the promise of the latest loadTurmaHistory call
    settings,       \* window.settings of each page context, without the key forceReload
    settingsEntry,  \* chrome.storage.local entry gladex_settings, without the key forceReload
    ctaRun,         \* the latest handleCTASelectors call examined on its own
    dungeonRun,     \* the latest selectDungeonOpponentFast / selectDungeonOpponentSlow call
    handlerRun      \* the latest screen handler call examined on its own, with what it did

vars == <<variant, stored, settingsStored, mem, phase, calls, loads, page, sel, runs,
          timeLocked, timers, microtasks, batch, invoked, lastInvocation, now,
          forceReload, storedForceReload, handled, lastReadFailed, historyLoad,
          settings, settingsEntry, ctaRun, dungeonRun, handlerRun>>

histVars == <<variant, stored, settingsStored, mem, phase, calls, loads>>
selVars  == <<page, sel, runs>>
lockVars == <<timeLocked, timers, microtasks, batch, invoked, lastInvocation, now,
              forceReload, storedForceReload>>
readVars == <<lastReadFailed, historyLoad>>
prefVars == <<settings, settingsEntry>>
screenVars == <<ctaRun, dungeonRun, handlerRun>>

-----------------------------------------------------------------------------
(* Bounds and input domains *)

MaxEvents == 2      \* updateTurmaAttackHistory calls per behaviour
MaxLoads  == 2      \* page loads per behaviour
MaxPage   == 2      \* .attack elements on a page
MaxWins   == 2      \* wins per opponent in a drawn history
MaxRuns   == 2      \* selectOptimalAttack calls on one page

Names     == {"Ann", "Bob"}
ReportIds == {"r1", "r2"}
States    == {"win", "loss", "draw"}
Contexts  == {"pageA", "pageB"}
NoReport  == "none"

\* JavaScript values an event field can hold
JsNum(n) == [t |-> "number", v |-> n]
JsUndef  == [t |-> "undefined", v |-> 0]

GoldInputs == {JsNum(0), JsNum(30)}
XpInputs   == {JsUndef, JsNum(5)}

Results == [state : States, goldWon : GoldInputs, xpGained : XpInputs]

-----------------------------------------------------------------------------
(* JavaScript helpers *)

EmptyObj == [k \in {} |-> 0]

Put(obj, k, v) == [x \in DOMAIN obj \cup {k} |-> IF x = k THEN v ELSE obj[x]]

\* a conversion that keeps the leading digits of a text, as parseInt does
NumberOr0_LeadingDigits(x) == x.v

\* Number(x) || 0
NumberOr0(x) == IF x.t = "number" THEN x.v ELSE 0

\* no selectOptimalAttack call is in flight
NoSelection == [pc |-> "idle"]

\* loadTurmaHistory was not called yet
NoLoad == [called |-> FALSE]

\* handleMutation was not called yet
NoInvocation == [called |-> FALSE]

\* before any handleCTASelectors or selectDungeonOpponent call
NoCall == [called |-> FALSE]
ScreenIdle == ctaRun = NoCall /\ dungeonRun = NoCall /\ handlerRun = NoCall

\* the mutation lock and the event loop of a page on which no mutation was observed yet
LockFree ==
    /\ timeLocked = FALSE
    /\ timers = <<>>
    /\ microtasks = <<>>
    /\ batch = <<>>
    /\ invoked = 0
    /\ lastInvocation = NoInvocation
    /\ now = 0
    /\ forceReload = FALSE
    /\ storedForceReload = FALSE

SeqIncludes(s, x) == \E i \in 1..Len(s) : s[i] = x

-----------------------------------------------------------------------------
(* storage.js: the flat history, opponent -> record.  The second flat copy at the    *)
(* end of part_001 folds an event in the same way.                                  *)

\* mutant: the update branch forgets to count a draw
FlatUpdateExisting_DrawNotCounted(rec, result) ==
    [results     |-> Append(rec.results, result),
     wins        |-> IF result.state = "win" THEN rec.wins + 1 ELSE rec.wins,
     losses      |-> IF result.state = "loss" THEN rec.losses + 1 ELSE rec.losses,
     draws       |-> rec.draws,
     goldWon     |-> IF result.state = "win" THEN rec.goldWon + NumberOr0(result.goldWon)
                     ELSE rec.goldWon,
     xpGained    |-> rec.xpGained,
     attackCount |-> rec.attackCount + 1]

\* mutant: the update branch adds the gold of every event, not only of wins
FlatUpdateExisting_GoldOnAnyState(rec, result) ==
    [results     |-> Append(rec.results, result),
     wins        |-> IF result.state = "win" THEN rec.wins + 1 ELSE rec.wins,
     losses      |-> IF result.state = "loss" THEN rec.losses + 1 ELSE rec.losses,
     draws       |-> IF result.state \notin {"win", "loss"} THEN rec.draws + 1 ELSE rec.draws,
     goldWon     |-> rec.goldWon + NumberOr0(result.goldWon),
     xpGained    |-> rec.xpGained,
     attackCount |-> rec.attackCount + 1]

FlatUpdateExisting(rec, result) ==
    [results     |-> Append(rec.results, result),
     wins        |-> IF result.state = "win" THEN rec.wins + 1 ELSE rec.wins,
     losses      |-> IF result.state = "win" THEN rec.losses
                     ELSE IF result.state = "loss" THEN rec.losses + 1 ELSE rec.losses,
     draws       |-> IF result.state = "win" \/ result.state = "loss" THEN rec.draws
                     ELSE rec.draws + 1,
     goldWon     |-> IF result.state = "win" THEN rec.goldWon + NumberOr0(result.goldWon)
                     ELSE rec.goldWon,
     xpGained    |-> rec.xpGained,
     attackCount |-> rec.attackCount + 1]

FlatNewRecord(result) ==
    [results     |-> <<result>>,
     wins        |-> IF result.state = "win" THEN 1 ELSE 0,
     losses      |-> IF result.state = "loss" THEN 1 ELSE 0,
     draws       |-> IF result.state = "draw" THEN 1 ELSE 0,
     goldWon     |-> IF result.state = "win" THEN NumberOr0(result.goldWon) ELSE 0,
     xpGained    |-> NumberOr0(result.xpGained),
     attackCount |-> 1]

FlatUpdate(h, opponent, result) ==
    IF opponent \in DOMAIN h
    THEN [h EXCEPT ![opponent] = FlatUpdateExisting(h[opponent], result)]
    ELSE Put(h, opponent, FlatNewRecord(result))

-----------------------------------------------------------------------------
(* part_001: the report-keyed history, {reports, opponents} *)

EmptyReportHistory == [reports |-> EmptyObj, opponents |-> EmptyObj]

ZeroRecord ==
    [reportIds |-> <<>>, wins |-> 0, losses |-> 0, draws |-> 0,
     goldWon |-> 0, xpGained |-> 0, attackCount |-> 0]

\* reports[reportId]; its timestamp is read by nothing and is left out
ReportSummary(fightData) ==
    [state    |-> fightData.state,
     goldWon  |-> NumberOr0(fightData.goldWon),
     xpGained |-> NumberOr0(fightData.xpGained)]

\* mutant: the duplicate check is dropped and every call folds its event
FoldsStats_Always(alreadyExists, alreadyLinked) == TRUE

\* lines 64-75: the aggregate counters are touched only for a brand new report
FoldsStats(alreadyExists, alreadyLinked) == ~alreadyExists

\* a fold that counts the attack twice
ReportFold_CountsTwice(rec, fightData) == [rec EXCEPT !.attackCount = @ + 2]

\* lines 64-75: the counters of the opponent record for a new report
ReportFold(rec, fightData) ==
    [rec EXCEPT
        !.attackCount = @ + 1,
        !.wins     = IF fightData.state = "win" THEN @ + 1 ELSE @,
        !.goldWon  = IF fightData.state = "win" THEN @ + NumberOr0(fightData.goldWon) ELSE @,
        !.losses   = IF fightData.state # "win" /\ fightData.state = "loss" THEN @ + 1 ELSE @,
        !.draws    = IF fightData.state # "win" /\ fightData.state # "loss" THEN @ + 1 ELSE @,
        !.xpGained = @ + NumberOr0(fightData.xpGained)]

\* reading .reports[reportId] of an object without a reports key throws a TypeError
ReportUpdateThrows(h) == ~("reports" \in DOMAIN h)

ReportUpdate(h, reportId, opponent, fightData) ==
    LET alreadyExists == reportId \in DOMAIN h.reports
        reports1 == IF alreadyExists THEN h.reports
                    ELSE Put(h.reports, reportId, ReportSummary(fightData))
        opps0 == IF opponent \in DOMAIN h.opponents THEN h.opponents
                 ELSE Put(h.opponents, opponent, ZeroRecord)
        rec0 == opps0[opponent]
        alreadyLinked == SeqIncludes(rec0.reportIds, reportId)
        rec1 == IF alreadyLinked THEN rec0
                ELSE [rec0 EXCEPT !.reportIds = Append(@, reportId)]
        rec2 == IF FoldsStats(alreadyExists, alreadyLinked) THEN ReportFold(rec1, fightData)
                ELSE rec1
    IN  [reports |-> reports1, opponents |-> [opps0 EXCEPT ![opponent] = rec2]]

-----------------------------------------------------------------------------
(* The persisted entry and its load *)

NotStored == [present |-> FALSE, value |-> EmptyObj]
Stored(h) == [present |-> TRUE, value |-> h]

\* window.turmaAttackHistory of a fresh page (constants.js)
FreshHistory == EmptyObj

\* what loadTurmaHistory resolves with when nothing usable is read
DefaultHistory(v) == IF v = "report" THEN EmptyReportHistory ELSE EmptyObj

\* loadTurmaHistory: lastError -> default; entry present -> its value; else default
LoadTurmaHistory(v, st, readError) ==
    IF readError THEN DefaultHistory(v)
    ELSE IF st.present THEN st.value
    ELSE DefaultHistory(v)

\* further JavaScript values a setting can hold; a boolean is kept as 0 or 1
JsBool(b) == [t |-> "boolean", v |-> IF b THEN 1 ELSE 0]
JsNull    == [t |-> "null", v |-> 0]

\* window.default_settings, two of its keys: one whose default is true and one whose
\* default is a positive number; the loop of initExtension treats every key alike
default_settings ==
    [autoHeal |-> JsBool(TRUE), expeditionLevel |-> JsNum(2)]

NoSettings == [present |-> FALSE, value |-> EmptyObj]
StoredSettings(s) == [present |-> TRUE, value |-> s]

\* x == null
IsNullish(x) == x.t \in {"null", "undefined"}

\* Object.keys(loadedSettings).forEach(key => window.settings[key] = loadedSettings[key])
MergeSettings(current, loaded) ==
    [k \in DOMAIN current \cup DOMAIN loaded |->
        IF k \in DOMAIN loaded THEN loaded[k] ELSE current[k]]

\* the keys of default_settings for which window.settings[key] == null
MissingKeys(s) == {k \in DOMAIN default_settings : k \notin DOMAIN s \/ IsNullish(s[k])}

\* window.settings after update_settings(key, default_settings[key]) for each missing key
ApplyDefaults(s) ==
    [k \in DOMAIN s \cup DOMAIN default_settings |->
        IF k \in MissingKeys(s) THEN default_settings[k] ELSE s[k]]

\* the settings of an install as the specifications below start from it: the persisted
\* entry holds the defaults when one is stored, and a page that is ready has loaded it
PrefsAsInstalled ==
    /\ settingsEntry = IF settingsStored THEN StoredSettings(default_settings) ELSE NoSettings
    /\ settings = [c \in DOMAIN phase |->
                      IF phase[c] = "ready" THEN default_settings ELSE EmptyObj]

\* loadSettings rejects on lastError and when no settings are stored
LoadSettingsRejects(hasSettings, readError) == readError \/ ~hasSettings

\* mutant: the write merges the new keys into the persisted object instead of replacing it
StorageSet_MergeKeys(st, h, writeOk) ==
    IF writeOk
    THEN Stored([k \in DOMAIN st.value \cup DOMAIN h |->
                    IF k \in DOMAIN h THEN h[k] ELSE st.value[k]])
    ELSE st

\* a write that reaches storage although chrome.runtime.lastError is reported
StorageSet_IgnoresFailure(st, h, writeOk) == Stored(h)

\* chrome.storage.local.set({gladex_turma_history: h}): the whole object replaces the entry
StorageSet(st, h, writeOk) == IF writeOk THEN Stored(h) ELSE st

\* a loadTurmaHistory that rejects on a read error, as loadSettings does
LoadOutcome_RejectsOnError(failed) == IF failed THEN "rejected" ELSE "resolved"

\* how the promise of loadTurmaHistory settles: every path of the callback calls resolve
LoadOutcome(failed) == "resolved"

-----------------------------------------------------------------------------
(* Actions on the history *)

\* loadTurmaHistory() and the callback of its chrome.storage.local.get
LoadTurmaHistoryCall(failed) ==
    /\ lastReadFailed' = failed
    /\ UNCHANGED prefVars
    /\ UNCHANGED screenVars
    /\ historyLoad' = [called  |-> TRUE,
                       outcome |-> LoadOutcome(failed),
                       value   |-> LoadTurmaHistory(variant, stored, failed)]
    /\ UNCHANGED histVars
    /\ UNCHANGED <<page, sel, runs>>
    /\ UNCHANGED lockVars
    /\ UNCHANGED handled

\* initExtension on a fresh page: loadSettings, then loadTurmaHistory inside the same try;
\* the loaded settings are copied into window.settings and every key of default_settings
\* that is still null or undefined is set, and the settings written back, by
\* update_settings.  The writes of one page load succeed or fail together.
InitExtension(c, settingsReadError, historyReadError, settingsWriteOk) ==
    /\ loads < MaxLoads
    /\ loads' = loads + 1
    /\ LET rejected == LoadSettingsRejects(settingsStored, settingsReadError)
           loadedSettings == IF rejected THEN EmptyObj ELSE settingsEntry.value
           merged == MergeSettings(EmptyObj, loadedSettings)
       IN  /\ mem' = [mem EXCEPT ![c] =
                        IF rejected THEN FreshHistory
                        ELSE LoadTurmaHistory(variant, stored, historyReadError)]
           /\ settingsStored' = IF rejected THEN (settingsWriteOk \/ settingsStored)
                                ELSE settingsStored
           /\ settings' = [settings EXCEPT ![c] = ApplyDefaults(merged)]
           /\ settingsEntry' = IF MissingKeys(merged) # {} /\ settingsWriteOk
                               THEN StoredSettings(ApplyDefaults(merged))
                               ELSE settingsEntry
    /\ phase' = [phase EXCEPT ![c] = "ready"]
    /\ UNCHANGED <<variant, stored, calls, page, sel, runs>>
    /\ UNCHANGED lockVars
    /\ UNCHANGED readVars
    /\ UNCHANGED screenVars
    /\ UNCHANGED handled

\* one entry of the call log: the arguments, whether the call threw and whether its
\* storage write went through
Call(c, reportId, opponent, result, threw, saved) ==
    [ctx |-> c, reportId |-> reportId, opponent |-> opponent, result |-> result,
     threw |-> threw, saved |-> saved]

\* updateTurmaAttackHistory followed by its chrome.storage.local.set; the caller says
\* what becomes of the log of handled report pages.  The opening
\* guard that replaces a missing window.turmaAttackHistory never fires: constants.js
\* sets the global to {} on every page.
UpdateTurmaAttackHistory(c, reportId, opponent, result, writeOk) ==
    /\ phase[c] = "ready"
    /\ Len(calls) < MaxEvents
    /\ IF variant = "flat"
       THEN /\ reportId = NoReport
            /\ mem' = [mem EXCEPT ![c] = FlatUpdate(mem[c], opponent, result)]
            /\ stored' = StorageSet(stored, mem'[c], writeOk)
            /\ calls' = Append(calls, Call(c, reportId, opponent, result, FALSE, writeOk))
       ELSE /\ reportId \in ReportIds
            /\ IF ReportUpdateThrows(mem[c])
               THEN /\ writeOk
                    /\ UNCHANGED <<mem, stored>>
                    /\ calls' = Append(calls, Call(c, reportId, opponent, result, TRUE, FALSE))
               ELSE /\ mem' = [mem EXCEPT ![c] = ReportUpdate(mem[c], reportId, opponent, result)]
                    /\ stored' = StorageSet(stored, mem'[c], writeOk)
                    /\ calls' = Append(calls, Call(c, reportId, opponent, result, FALSE, writeOk))
    /\ UNCHANGED <<variant, settingsStored, phase, loads, page, sel, runs>>
    /\ UNCHANGED lockVars
    /\ UNCHANGED readVars
    /\ UNCHANGED prefVars
    /\ UNCHANGED screenVars

-----------------------------------------------------------------------------
(* SpecFold: one page context folding a sequence of events into an empty history *)

InitFold ==
    /\ variant \in {"flat", "report"}
    /\ stored = NotStored
    /\ settingsStored = TRUE
    /\ mem = [c \in Contexts |-> IF c = "pageA" THEN DefaultHistory(variant) ELSE FreshHistory]
    /\ phase = [c \in Contexts |-> IF c = "pageA" THEN "ready" ELSE "closed"]
    /\ calls = <<>>
    /\ loads = 0
    /\ page = <<>>
    /\ sel = NoSelection
    /\ runs = <<>>
    /\ handled = <<>>
    /\ lastReadFailed = FALSE
    /\ historyLoad = NoLoad
    /\ ScreenIdle
    /\ PrefsAsInstalled
    /\ LockFree

\* every storage write goes through here; failing writes are part of Spec
NextFold ==
    \E reportId \in ReportIds \cup {NoReport}, opponent \in Names, result \in Results :
        /\ UpdateTurmaAttackHistory("pageA", reportId, opponent, result, TRUE)
        /\ UNCHANGED handled

SpecFold == InitFold /\ [][NextFold]_vars

-----------------------------------------------------------------------------
(* Spec: a single agent, one page context alive at a time, from a fresh install *)

Init ==
    /\ variant \in {"flat", "report"}
    /\ stored = NotStored
    /\ settingsStored = FALSE
    /\ mem = [c \in Contexts |-> FreshHistory]
    /\ phase = [c \in Contexts |-> "closed"]
    /\ calls = <<>>
    /\ loads = 0
    /\ page = <<>>
    /\ sel = NoSelection
    /\ runs = <<>>
    /\ handled = <<>>
    /\ lastReadFailed = FALSE
    /\ historyLoad = NoLoad
    /\ ScreenIdle
    /\ PrefsAsInstalled
    /\ LockFree

\* the outcomes a page is fed where only their fold into the store matters
PageResults ==
    {[state |-> "win",  goldWon |-> JsNum(30), xpGained |-> JsNum(5)],
     [state |-> "loss", goldWon |-> JsNum(0),  xpGained |-> JsUndef]}

PageLoad(c) ==
    \E settingsReadError \in BOOLEAN, historyReadError \in BOOLEAN,
       settingsWriteOk \in BOOLEAN :
        InitExtension(c, settingsReadError, historyReadError, settingsWriteOk)

PageRecord(c) ==
    \E reportId \in ReportIds \cup {NoReport}, opponent \in Names, result \in PageResults,
       writeOk \in BOOLEAN :
        /\ UpdateTurmaAttackHistory(c, reportId, opponent, result, writeOk)
        /\ UNCHANGED handled

Next == PageLoad("pageA") \/ PageRecord("pageA")

Spec == Init /\ [][Next]_vars

-----------------------------------------------------------------------------
(* SpecRace: two page contexts of one install share the persisted entry *)

InitRace ==
    /\ variant \in {"flat", "report"}
    /\ stored = NotStored
    /\ settingsStored = TRUE
    /\ mem = [c \in Contexts |-> FreshHistory]
    /\ phase = [c \in Contexts |-> "closed"]
    /\ calls = <<>>
    /\ loads = 0
    /\ page = <<>>
    /\ sel = NoSelection
    /\ runs = <<>>
    /\ handled = <<>>
    /\ lastReadFailed = FALSE
    /\ historyLoad = NoLoad
    /\ ScreenIdle
    /\ PrefsAsInstalled
    /\ LockFree

HasRecorded(c) == \E i \in 1..Len(calls) : calls[i].ctx = c

\* each context loads once, with storage reads that succeed, and then records one event
NextRace ==
    \E c \in Contexts :
        \/ phase[c] = "closed" /\ InitExtension(c, FALSE, FALSE, TRUE)
        \/ ~HasRecorded(c) /\ PageRecord(c)

SpecRace == InitRace /\ [][NextRace]_vars

-----------------------------------------------------------------------------
(* turma-attack.js: selectOptimalAttack.  arena-attack.js holds the same function  *)
(* reading the key gladex_arena_history.                                           *)

\* winRate and averageGold are quotients of small integers; they are kept as exact
\* fractions with a positive denominator.  Two such quotients are equal as doubles
\* exactly when they are equal as fractions.
Rat(n, d) == [num |-> n, den |-> d]
RatLess(p, q) == p.num * q.den < q.num * p.den
RatEq(p, q)   == p.num * q.den = q.num * p.den

DefaultWinRate     == Rat(1, 2)
DefaultAverageGold == Rat(100, 1)

\* resolve(null)
Null == 0

\* an .attack element: whether it sits in a <tr>, and the trimmed text of the row's name link
Elements ==
    {[hasRow |-> TRUE, name |-> n] : n \in Names \cup {""}}
        \cup {[hasRow |-> FALSE, name |-> ""]}

\* result.gladex_turma_history || {}
HistoryOrEmpty(st) == IF st.present THEN st.value ELSE EmptyObj

\* history && history.attackCount > 0
HasHistory(history, opponentName) ==
    /\ opponentName \in DOMAIN history
    /\ "attackCount" \in DOMAIN history[opponentName]
    /\ history[opponentName].attackCount > 0

WinRate(history, opponentName) ==
    IF HasHistory(history, opponentName)
    THEN Rat(history[opponentName].wins, history[opponentName].attackCount)
    ELSE DefaultWinRate

\* mutant: the gold is averaged over all attacks instead of over the wins
AverageGold_PerAttack(history, opponentName) ==
    IF HasHistory(history, opponentName)
    THEN Rat(history[opponentName].goldWon, history[opponentName].attackCount)
    ELSE DefaultAverageGold

AverageGold(history, opponentName) ==
    IF HasHistory(history, opponentName)
    THEN IF history[opponentName].wins > 0
         THEN Rat(history[opponentName].goldWon, history[opponentName].wins)
         ELSE Rat(0, 1)
    ELSE DefaultAverageGold

\* an element is kept although its name is empty
IsValidElement_KeepsEmptyName(e) == e.hasRow

\* an element is kept whatever its row and name
IsValidElement_NoChecks(e) == TRUE

\* an element is skipped when it has no row or its opponent name is empty
IsValidElement(e) == e.hasRow /\ e.name # ""

\* the opponents array after the each() loop over the first i elements
RECURSIVE Opponents(_, _, _)
Opponents(history, elements, i) ==
    IF i = 0 THEN <<>>
    ELSE LET rest == Opponents(history, elements, i - 1)
             e == elements[i]
         IN  IF IsValidElement(e)
             THEN Append(rest, [attackDiv    |-> i,
                                opponentName |-> e.name,
                                winRate      |-> WinRate(history, e.name),
                                averageGold  |-> AverageGold(history, e.name)])
             ELSE rest

\* a comparator that also puts a before b when the two are tied
ComparatorNegative_TieIsNegative(a, b) ==
    IF ~RatEq(b.winRate, a.winRate)
    THEN RatLess(b.winRate, a.winRate)
    ELSE ~RatLess(a.averageGold, b.averageGold)

\* mutant: ties on winRate are broken by ascending averageGold
ComparatorNegative_GoldAscending(a, b) ==
    IF ~RatEq(b.winRate, a.winRate)
    THEN RatLess(b.winRate, a.winRate)
    ELSE RatLess(a.averageGold, b.averageGold)

\* the sort comparator returns a negative number: a is placed before b
ComparatorNegative(a, b) ==
    IF ~RatEq(b.winRate, a.winRate)
    THEN RatLess(b.winRate, a.winRate)
    ELSE RatLess(b.averageGold, a.averageGold)

\* Array.prototype.sort is stable: x goes before the first element it must precede
RECURSIVE InsertSorted(_, _)
InsertSorted(s, x) ==
    IF s = <<>> THEN <<x>>
    ELSE IF ComparatorNegative(x, Head(s)) THEN <<x>> \o s
    ELSE <<Head(s)>> \o InsertSorted(Tail(s), x)

RECURSIVE SortOpponents(_)
SortOpponents(s) ==
    IF s = <<>> THEN <<>>
    ELSE InsertSorted(SortOpponents(SubSeq(s, 1, Len(s) - 1)), s[Len(s)])

\* mutant: the test is >= 0, so the top candidate is always taken
TopHasWinRate_NonNegative(opponents) == opponents[1].winRate.num >= 0

\* opponents[0].winRate > 0
TopHasWinRate(opponents) == opponents[1].winRate.num > 0

\* mutant: the random index runs over all .attack elements instead of the opponents
RandomPicks_AnyElement(opponents, elements) == 1..Len(elements)

\* opponents[Math.floor(Math.random() * opponents.length)].attackDiv
RandomPicks(opponents, elements) == {opponents[i].attackDiv : i \in 1..Len(opponents)}

Settled(outcome, value, branch, opponents) ==
    [outcome |-> outcome, value |-> value, branch |-> branch, opponents |-> opponents]

\* a call that takes whatever it is handed for a jQuery object
ValidTopElement_Any(isJQuery) == TRUE

\* topElement instanceof jQuery
ValidTopElement(isJQuery) == isJQuery

\* a callback without the test of opponents.length: opponents[0] of an empty array
\* throws inside the storage callback and neither resolve nor reject is reached
Settle_ThrowsOnNoValid(settled, s) == IF s.branch = "novalid" THEN settled ELSE Append(settled, s)

\* resolve(value) or reject(error) followed by return, or as the last statement: the
\* promise settles and nothing after it runs
Settle(settled, s) == Append(settled, s)

\* selectOptimalAttack(topElement) up to the chrome.storage.local.get call
SelectCall(isJQuery) ==
    /\ sel.pc = "idle"
    /\ Len(runs) < MaxRuns
    /\ IF ValidTopElement(isJQuery)
       THEN /\ sel' = [pc |-> "reading", topElementIsJQuery |-> isJQuery]
            /\ runs' = runs
       ELSE /\ sel' = [pc |-> "idle", topElementIsJQuery |-> isJQuery]
            /\ runs' = Settle(runs, Settled("rejected", Null, "invalid", <<>>))
    /\ UNCHANGED <<page>>
    /\ UNCHANGED histVars
    /\ UNCHANGED lockVars
    /\ UNCHANGED readVars
    /\ UNCHANGED prefVars
    /\ UNCHANGED screenVars
    /\ UNCHANGED handled

\* a callback that ignores chrome.runtime.lastError and ranks against what it was handed
RejectsOnReadError_Swallows(lastError) == FALSE

\* if (chrome.runtime.lastError) return reject(chrome.runtime.lastError)
RejectsOnReadError(lastError) == lastError

\* the callback of chrome.storage.local.get
SelectGetCallback(lastError) ==
    /\ sel.pc = "reading"
    /\ sel' = NoSelection
    /\ LET opponents == Opponents(HistoryOrEmpty(stored), page, Len(page))
           sorted == SortOpponents(opponents)
       IN  IF RejectsOnReadError(lastError)
           THEN runs' = Settle(runs, Settled("rejected", Null, "storage", <<>>))
           ELSE IF Len(page) = 0
           THEN runs' = Settle(runs, Settled("resolved", Null, "noattack", <<>>))
           ELSE IF Len(opponents) = 0
           THEN runs' = Settle(runs, Settled("resolved", Null, "novalid", <<>>))
           ELSE IF TopHasWinRate(sorted)
           THEN runs' = Settle(runs, Settled("resolved", sorted[1].attackDiv, "top", sorted))
           ELSE \E picked \in RandomPicks(sorted, page) :
                    runs' = Settle(runs, Settled("resolved", picked, "random", sorted))
    /\ lastReadFailed' = lastError
    /\ UNCHANGED prefVars
    /\ UNCHANGED screenVars
    /\ UNCHANGED <<page, historyLoad>>
    /\ UNCHANGED histVars
    /\ UNCHANGED lockVars
    /\ UNCHANGED handled

-----------------------------------------------------------------------------
(* SpecSelect: selectOptimalAttack on a page, against a persisted history *)

WinEvent(g) == [state |-> "win", goldWon |-> JsNum(g), xpGained |-> JsNum(5)]
LossEvent   == [state |-> "loss", goldWon |-> JsNum(0), xpGained |-> JsUndef]

GoldPerWin == {0, 100, 250}
LossCounts == {0, 1}

RECURSIVE FoldTimes(_, _, _, _)
FoldTimes(h, opponent, result, k) ==
    IF k = 0 THEN h ELSE FoldTimes(FlatUpdate(h, opponent, result), opponent, result, k - 1)

\* the flat history after w wins of gold g each and l losses against one opponent
WithFights(h, opponent, w, g, l) ==
    FoldTimes(FoldTimes(h, opponent, WinEvent(g), w), opponent, LossEvent, l)

FlatHistories ==
    {WithFights(WithFights(EmptyObj, "Ann", wa, ga, la), "Bob", wb, gb, lb) :
        wa \in 0..MaxWins, la \in LossCounts, ga \in GoldPerWin,
        wb \in 0..MaxWins, lb \in LossCounts, gb \in GoldPerWin}

ReportHistories ==
    {EmptyReportHistory,
     ReportUpdate(EmptyReportHistory, "r1", "Ann", LossEvent),
     ReportUpdate(ReportUpdate(EmptyReportHistory, "r1", "Ann", WinEvent(100)),
                  "r2", "Bob", LossEvent)}

RECURSIVE Pages(_)
Pages(n) ==
    IF n = 0 THEN {<<>>}
    ELSE Pages(n - 1) \cup {Append(p, e) : p \in {q \in Pages(n - 1) : Len(q) = n - 1},
                                           e \in Elements}

InitSelect ==
    /\ variant \in {"flat", "report"}
    /\ stored \in {NotStored} \cup
                  {Stored(h) : h \in IF variant = "flat" THEN FlatHistories
                                     ELSE ReportHistories}
    /\ settingsStored = TRUE
    /\ mem = [c \in Contexts |-> FreshHistory]
    /\ phase = [c \in Contexts |-> "closed"]
    /\ calls = <<>>
    /\ loads = 0
    /\ page \in Pages(MaxPage)
    /\ sel = NoSelection
    /\ runs = <<>>
    /\ handled = <<>>
    /\ lastReadFailed = FALSE
    /\ historyLoad = NoLoad
    /\ ScreenIdle
    /\ PrefsAsInstalled
    /\ LockFree

NextSelect ==
    \/ \E isJQuery \in BOOLEAN : SelectCall(isJQuery)
    \/ \E lastError \in BOOLEAN : SelectGetCallback(lastError)

SpecSelect == InitSelect /\ [][NextSelect]_vars

-----------------------------------------------------------------------------
(* Accounting over the call log, used to state the claims *)

\* the opponent records of a history of the running variant
OpponentsOf(h) == IF variant = "report" THEN h.opponents ELSE h

\* call i was folded: it did not throw and, where events carry an id, its id was new
FoldedCall(i) ==
    /\ ~calls[i].threw
    /\ \/ variant = "flat"
       \/ \A j \in 1..(i - 1) : calls[j].threw \/ calls[j].reportId # calls[i].reportId

RECURSIVE GoldOfWins(_, _)
GoldOfWins(n, i) ==
    IF i = 0 THEN 0
    ELSE GoldOfWins(n, i - 1) +
         (IF FoldedCall(i) /\ calls[i].opponent = n /\ calls[i].result.state = "win"
          THEN NumberOr0(calls[i].result.goldWon) ELSE 0)

RECURSIVE XpOfAll(_, _)
XpOfAll(n, i) ==
    IF i = 0 THEN 0
    ELSE XpOfAll(n, i - 1) +
         (IF FoldedCall(i) /\ calls[i].opponent = n
          THEN NumberOr0(calls[i].result.xpGained) ELSE 0)

Counters(rec) ==
    <<rec.attackCount, rec.wins, rec.losses, rec.draws, rec.goldWon, rec.xpGained>>

ZeroCounters == <<0, 0, 0, 0, 0, 0>>

\* the step is an updateTurmaAttackHistory call whose reportId an earlier call already used
RepeatedReportStep ==
    /\ variant = "report"
    /\ Len(calls') = Len(calls) + 1
    /\ \E i \in 1..Len(calls) : calls[i].reportId = calls'[Len(calls')].reportId

-----------------------------------------------------------------------------
(* Claims checked under SpecFold *)

\* C3: in the report-keyed variant a call that repeats a reportId leaves attackCount,
\* wins, losses, draws, goldWon and xpGained of every existing opponent record as
\* they were, and a record it creates has all six at zero.
C3_RepeatedReportIdKeepsCounters ==
    [][RepeatedReportStep =>
        /\ \A n \in DOMAIN mem["pageA"].opponents :
              Counters(mem'["pageA"].opponents[n]) = Counters(mem["pageA"].opponents[n])
        /\ \A n \in DOMAIN mem'["pageA"].opponents \ DOMAIN mem["pageA"].opponents :
              Counters(mem'["pageA"].opponents[n]) = ZeroCounters]_vars

\* C3 witness: the same event was recorded twice and the record counts one attack
C3_Witness ==
    /\ variant = "report"
    /\ Len(calls) = 2
    /\ calls[1].reportId = calls[2].reportId
    /\ calls[1].opponent = calls[2].opponent
    /\ calls[1].result = calls[2].result
    /\ calls[1].result.state = "win"
    /\ mem["pageA"].opponents[calls[1].opponent].attackCount = 1

\* C4: every opponent record has attackCount = wins + losses + draws, in memory and
\* in the persisted entry, in both variants.
C4_AttackCountIsSumOfOutcomes ==
    /\ \A n \in DOMAIN OpponentsOf(mem["pageA"]) :
          LET rec == OpponentsOf(mem["pageA"])[n]
          IN  rec.attackCount = rec.wins + rec.losses + rec.draws
    /\ stored.present =>
          \A n \in DOMAIN OpponentsOf(stored.value) :
              LET rec == OpponentsOf(stored.value)[n]
              IN  rec.attackCount = rec.wins + rec.losses + rec.draws

\* C4 witness: a record that was created by one event and updated by a draw
C4_Witness ==
    \E n \in DOMAIN OpponentsOf(mem["pageA"]) :
        LET rec == OpponentsOf(mem["pageA"])[n]
        IN  rec.attackCount = 2 /\ rec.draws = 1 /\ rec.wins = 1

\* C7: a record's goldWon is the sum of goldWon over the folded events of that
\* opponent whose state is win; loss and draw events add nothing.
C7_GoldIsSumOverWins ==
    \A n \in DOMAIN OpponentsOf(mem["pageA"]) :
        OpponentsOf(mem["pageA"])[n].goldWon = GoldOfWins(n, Len(calls))

\* C7 witness: a loss carrying gold 30 was folded after a win, and only the win counts
C7_Witness ==
    /\ Len(calls) = 2
    /\ calls[1].opponent = calls[2].opponent
    /\ FoldedCall(2)
    /\ calls[1].result.state = "win" /\ calls[1].result.goldWon = JsNum(30)
    /\ calls[2].result.state = "loss" /\ calls[2].result.goldWon = JsNum(30)
    /\ OpponentsOf(mem["pageA"])[calls[1].opponent].goldWon = 30

\* C8: a record's xpGained is the sum of xpGained over all folded events of that
\* opponent, whatever their state, in every variant.
C8_XpIsSumOverAllEvents ==
    \A n \in DOMAIN OpponentsOf(mem["pageA"]) :
        OpponentsOf(mem["pageA"])[n].xpGained = XpOfAll(n, Len(calls))

-----------------------------------------------------------------------------
(* Claims checked under SpecRace *)

PersistedOpponents == IF stored.present THEN OpponentsOf(stored.value) ELSE EmptyObj

\* C9: a successful save replaces the persisted entry by the saving context's in-memory
\* history as a whole, so of two contexts that loaded the same entry and then each
\* recorded and saved, the entry holds only what the last writer had in memory.
C9_SaveReplacesWholeEntry ==
    [][(Len(calls') = Len(calls) + 1 /\ calls'[Len(calls')].saved)
          => stored' = Stored(mem'[calls'[Len(calls')].ctx])]_vars

\* C9 witness: pageA and pageB both recorded and saved, for different opponents, and
\* the persisted history has pageB's opponent and not pageA's
C9_Witness ==
    /\ Len(calls) = 2
    /\ calls[1].ctx = "pageA" /\ calls[1].saved
    /\ calls[2].ctx = "pageB" /\ calls[2].saved
    /\ calls[1].opponent # calls[2].opponent
    /\ calls[1].reportId = NoReport \/ calls[1].reportId # calls[2].reportId
    /\ calls[2].opponent \in DOMAIN PersistedOpponents
    /\ calls[1].opponent \notin DOMAIN PersistedOpponents

-----------------------------------------------------------------------------
(* Claims checked under Spec *)

\* C10: with a single agent no opponent record ever leaves the persisted history and
\* no persisted attackCount ever decreases, across page loads (also those whose
\* storage read reports an error), recorded events and storage writes.
C10_PersistedHistoryOnlyGrows ==
    [][\A n \in DOMAIN PersistedOpponents :
          /\ n \in DOMAIN PersistedOpponents'
          /\ PersistedOpponents'[n].attackCount >= PersistedOpponents[n].attackCount]_vars

-----------------------------------------------------------------------------
(* Claims checked under SpecSelect *)

\* the history the storage read hands to the ranking
ReadHistory == HistoryOrEmpty(stored)

\* positions of the valid candidates of the page
ValidCandidates == {i \in 1..Len(page) : page[i].hasRow /\ page[i].name # ""}

\* the candidate's record, when the history has one under its name
HasRecord(i) == page[i].name \in DOMAIN ReadHistory
RecordOf(i)  == ReadHistory[page[i].name]

\* the scores the code gave the candidate at position i in run r
ScoredIn(r, i) ==
    CHOOSE o \in {r.opponents[k] : k \in 1..Len(r.opponents)} : o.attackDiv = i

Ranked(r) == r.outcome = "resolved" /\ r.value # Null

\* C1: when the page has a valid candidate and the storage read succeeds, the promise
\* resolves to the element of one of the valid candidates, never to null or to another
\* element, on the deterministic and on the random branch; it is rejected only for a
\* non-jQuery argument or a storage error.
C1_SelectsAValidCandidate ==
    \A k \in 1..Len(runs) :
        /\ runs[k].outcome = "rejected" => runs[k].branch \in {"invalid", "storage"}
        /\ (runs[k].outcome = "resolved" /\ ValidCandidates # {})
              => runs[k].value \in ValidCandidates

\* C1 witness: the random branch resolved to a valid candidate on a page that also
\* holds an element that is not a candidate
C1_Witness ==
    \E k \in 1..Len(runs) :
        /\ runs[k].branch = "random"
        /\ runs[k].value \in ValidCandidates
        /\ ValidCandidates # 1..Len(page)

\* C2: when some valid candidate has winRate > 0, the selected candidate has the
\* greatest winRate of all valid candidates, and the greatest averageGold among those
\* with that winRate.
C2_SelectsBestWinRateThenGold ==
    \A k \in 1..Len(runs) :
        (Ranked(runs[k]) /\ \E i \in ValidCandidates : ScoredIn(runs[k], i).winRate.num > 0)
        => LET chosen == ScoredIn(runs[k], runs[k].value)
           IN  \A i \in ValidCandidates :
                  LET other == ScoredIn(runs[k], i)
                  IN  /\ ~RatLess(chosen.winRate, other.winRate)
                      /\ RatEq(chosen.winRate, other.winRate)
                            => ~RatLess(chosen.averageGold, other.averageGold)

\* C2 witness: a candidate with a record at winRate 2/3 and average gold 0
\* is chosen over a candidate without history (0.5 / 100) listed before it
C2_Witness ==
    \E k \in 1..Len(runs) :
        /\ Ranked(runs[k])
        /\ HasRecord(runs[k].value)
        /\ RecordOf(runs[k].value).losses = 1
        /\ RecordOf(runs[k].value).wins = 2
        /\ RecordOf(runs[k].value).goldWon = 0
        /\ \E i \in ValidCandidates : i < runs[k].value /\ ~HasRecord(i)

\* C5: a candidate without a record (or with attackCount 0) is scored 0.5 and 100; a
\* candidate with a record and attackCount > 0 is scored wins / attackCount and
\* goldWon / wins when wins > 0, else 0.
C5_ScoresFollowTheRecord ==
    \A k \in 1..Len(runs) : \A j \in 1..Len(runs[k].opponents) :
        LET o == runs[k].opponents[j]
            i == o.attackDiv
        IN  /\ o.opponentName = page[i].name
            /\ IF HasRecord(i) /\ RecordOf(i).attackCount > 0
               THEN /\ o.winRate.den > 0
                    /\ o.winRate.num * RecordOf(i).attackCount
                          = RecordOf(i).wins * o.winRate.den
                    /\ o.averageGold.den > 0
                    /\ IF RecordOf(i).wins > 0
                       THEN o.averageGold.num * RecordOf(i).wins
                               = RecordOf(i).goldWon * o.averageGold.den
                       ELSE o.averageGold.num = 0
               ELSE /\ o.winRate.den > 0 /\ 2 * o.winRate.num = o.winRate.den
                    /\ o.averageGold.den > 0 /\ o.averageGold.num = 100 * o.averageGold.den

\* C5 witness: one run scored a candidate without a record and a candidate with one
\* win of gold 250 and one loss
C5_Witness ==
    \E k \in 1..Len(runs) :
        /\ Len(runs[k].opponents) = 2
        /\ \E i \in ValidCandidates : ~HasRecord(i)
        /\ \E i \in ValidCandidates :
              /\ HasRecord(i)
              /\ RecordOf(i).wins = 1 /\ RecordOf(i).losses = 1 /\ RecordOf(i).goldWon = 250

\* every valid candidate has a record with attackCount > 0 and no win
AllWinless ==
    \A i \in ValidCandidates :
        HasRecord(i) /\ RecordOf(i).attackCount > 0 /\ RecordOf(i).wins = 0

-----------------------------------------------------------------------------
(* The mutation lock: handleMutation, onMutations and the unlock timer        *)
(*                                                                            *)
(* A page runs one callback at a time.  The MutationObserver callback hands   *)
(* its mutations to handleMutation one after the other; each invocation runs  *)
(* to its await and is resumed from the microtask queue once the callback has *)
(* returned; a timer callback runs only when no callback and no microtask is  *)
(* left.                                                                      *)

UnlockDelay    == 5000   \* delay of the unlock timer, in milliseconds
MaxInvocations == 3      \* handleMutation invocations per behaviour
MaxBatch       == 2      \* mutations handed to one onMutations callback
MaxTime        == 6000   \* the clock stops advancing here

\* mutation.addedNodes.length of a delivered mutation
AddedNodes == {0, 1}

\* the mutation lists a callback can be handed
MutationLists == UNION {[1..n -> AddedNodes] : n \in 1..MaxBatch}

\* what handleCTASelectors does when called
CtaOutcomes == {"clicked", "none", "throws"}

\* what the time-based triggers do: whether they call update_settings("forceReload", true),
\* whether that storage write goes through, and whether one of them throws
TriggerOutcomes == [setsForceReload : BOOLEAN, writeOk : BOOLEAN, throws : BOOLEAN]

\* an invocation that ignores the lock
PassesGuard_IgnoresLock(addedNodes, locked) == addedNodes # 0

\* the guard of handleMutation: nodes were added and the lock is free
PassesGuard(addedNodes, locked) == addedNodes # 0 /\ ~locked

\* a try without catch whose setTimeout follows the call instead of sitting in finally
AfterCTA_NoCatchNoFinally(cta) ==
    [timer |-> cta # "throws", continues |-> cta # "throws"]

\* try { handleCTASelectors() } catch { log } finally { setTimeout(unlock, 5000) }:
\* the timer is set and the function goes on, whatever the call did
AfterCTA(cta) == [timer |-> TRUE, continues |-> TRUE]

Timer(id) == [id |-> id, due |-> now + UnlockDelay]

TimerIds == {timers[k].id : k \in 1..Len(timers)}

\* the invocations that passed the guard and have not returned yet
InFlight == {microtasks[k] : k \in 1..Len(microtasks)}

\* what an invocation saw on entry and what it did up to its await or return
Invocation(id, addedNodes, passed, cta, trig, continues) ==
    [called        |-> TRUE,
     id            |-> id,
     addedNodes    |-> addedNodes,
     inFlight      |-> InFlight,
     timersPending |-> TimerIds,
     passed        |-> passed,
     clicked       |-> passed /\ cta = "clicked",
     ctaThrew      |-> passed /\ cta = "throws",
     triggersRan   |-> passed /\ continues,
     triggerThrew  |-> passed /\ continues /\ trig.throws,
     returned      |-> IF ~passed THEN "false"
                       ELSE IF continues THEN "pending" ELSE "rejected"]

\* the MutationObserver delivers a list of mutations to onMutations
OnMutations(mutationsList) ==
    /\ batch = <<>>
    /\ microtasks = <<>>
    /\ invoked + Len(mutationsList) <= MaxInvocations
    /\ batch' = mutationsList
    /\ UNCHANGED <<timeLocked, timers, microtasks, invoked, lastInvocation, now,
                   forceReload, storedForceReload>>
    /\ UNCHANGED histVars
    /\ UNCHANGED selVars
    /\ UNCHANGED handled
    /\ UNCHANGED readVars
    /\ UNCHANGED prefVars
    /\ UNCHANGED screenVars

\* one iteration of the forEach of onMutations: handleMutation(mutation) from its entry
\* to its first await (or to its return, when the guard fails)
HandleMutation(cta, trig) ==
    /\ batch # <<>>
    /\ batch' = Tail(batch)
    /\ invoked' = invoked + 1
    /\ LET addedNodes == Head(batch)
           id         == invoked + 1
           passed     == PassesGuard(addedNodes, timeLocked)
           after      == AfterCTA(cta)
           sets       == after.continues /\ trig.setsForceReload
       IN  IF passed
           THEN /\ timeLocked' = TRUE
                /\ timers' = IF after.timer THEN Append(timers, Timer(id)) ELSE timers
                /\ microtasks' = IF after.continues THEN Append(microtasks, id)
                                 ELSE microtasks
                /\ forceReload' = (sets \/ forceReload)
                /\ storedForceReload' = IF sets /\ trig.writeOk THEN TRUE
                                        ELSE storedForceReload
                /\ lastInvocation' =
                       Invocation(id, addedNodes, TRUE, cta, trig, after.continues)
           ELSE /\ lastInvocation' = Invocation(id, addedNodes, FALSE, cta, trig, FALSE)
                /\ UNCHANGED <<timeLocked, timers, microtasks, forceReload,
                               storedForceReload>>
    /\ UNCHANGED now
    /\ UNCHANGED histVars
    /\ UNCHANGED selVars
    /\ UNCHANGED handled
    /\ UNCHANGED readVars
    /\ UNCHANGED prefVars
    /\ UNCHANGED screenVars

\* handleMutation resumed after `await timeChangesPromise`, fulfilled or rejected:
\* the rejection is caught and logged, the lock is released and true is returned
Continuation ==
    /\ batch = <<>>
    /\ microtasks # <<>>
    /\ microtasks' = Tail(microtasks)
    /\ timeLocked' = FALSE
    /\ lastInvocation' = IF lastInvocation.id = Head(microtasks)
                         THEN [lastInvocation EXCEPT !.returned = "true"]
                         ELSE lastInvocation
    /\ UNCHANGED <<timers, batch, invoked, now, forceReload, storedForceReload>>
    /\ UNCHANGED histVars
    /\ UNCHANGED selVars
    /\ UNCHANGED handled
    /\ UNCHANGED readVars
    /\ UNCHANGED prefVars
    /\ UNCHANGED screenVars

\* the callback handed to setTimeout: unlock; with forceReload on, reload the page and
\* write forceReload = false.  The reloaded page starts with no timer and with the
\* settings it reads back from storage.
TimerFires(writeOk) ==
    /\ batch = <<>>
    /\ microtasks = <<>>
    /\ timers # <<>>
    /\ Head(timers).due <= now
    /\ timeLocked' = FALSE
    /\ IF forceReload
       THEN /\ timers' = <<>>
            /\ storedForceReload' = IF writeOk THEN FALSE ELSE storedForceReload
            /\ forceReload' = storedForceReload'
       ELSE /\ writeOk
            /\ timers' = Tail(timers)
            /\ UNCHANGED <<forceReload, storedForceReload>>
    /\ UNCHANGED <<microtasks, batch, invoked, lastInvocation, now>>
    /\ UNCHANGED histVars
    /\ UNCHANGED selVars
    /\ UNCHANGED handled
    /\ UNCHANGED readVars
    /\ UNCHANGED prefVars
    /\ UNCHANGED screenVars

\* a second passes while the page is idle
Tick ==
    /\ batch = <<>>
    /\ microtasks = <<>>
    /\ now + 1000 <= MaxTime
    /\ now' = now + 1000
    /\ UNCHANGED <<timeLocked, timers, microtasks, batch, invoked, lastInvocation,
                   forceReload, storedForceReload>>
    /\ UNCHANGED histVars
    /\ UNCHANGED selVars
    /\ UNCHANGED handled
    /\ UNCHANGED readVars
    /\ UNCHANGED prefVars
    /\ UNCHANGED screenVars

\* the history and selection side of a page on which neither is used
HistoryIdle ==
    /\ variant = "flat"
    /\ stored = NotStored
    /\ settingsStored = TRUE
    /\ mem = [c \in Contexts |-> FreshHistory]
    /\ phase = [c \in Contexts |-> "closed"]
    /\ calls = <<>>
    /\ loads = 0
    /\ page = <<>>
    /\ sel = NoSelection
    /\ runs = <<>>
    /\ handled = <<>>
    /\ lastReadFailed = FALSE
    /\ historyLoad = NoLoad
    /\ ScreenIdle
    /\ PrefsAsInstalled

InitLock == HistoryIdle /\ LockFree

NextLock ==
    \/ \E mutationsList \in MutationLists : OnMutations(mutationsList)
    \/ \E cta \in CtaOutcomes, trig \in TriggerOutcomes : HandleMutation(cta, trig)
    \/ Continuation
    \/ \E writeOk \in BOOLEAN : TimerFires(writeOk)
    \/ Tick

SpecLock == InitLock /\ [][NextLock]_vars

\* the event loop runs every started callback to its end, drains the microtask queue
\* and fires a timer that is due
SpecLockFair ==
    /\ InitLock
    /\ [][NextLock]_vars
    /\ WF_vars(\E cta \in CtaOutcomes, trig \in TriggerOutcomes : HandleMutation(cta, trig))
    /\ WF_vars(Continuation)
    /\ WF_vars(\E writeOk \in BOOLEAN : TimerFires(writeOk))

\* C11: an invocation made while another one has passed the guard and has not returned
\* returns false, clicks no CTA and runs no time-based trigger.
C11_OthersReturnFalseWhileInFlight ==
    (lastInvocation.called /\ lastInvocation.inFlight # {}) =>
        /\ ~lastInvocation.passed
        /\ lastInvocation.returned = "false"
        /\ ~lastInvocation.clicked
        /\ ~lastInvocation.triggersRan

\* C11 witness: a mutation with added nodes, delivered in the same list as one that
\* passed the guard and is still in flight, was turned away
C11_Witness ==
    /\ lastInvocation.called
    /\ lastInvocation.addedNodes # 0
    /\ lastInvocation.inFlight # {}
    /\ lastInvocation.inFlight = InFlight
    /\ lastInvocation.returned = "false"

\* C12: no mutation passes the guard while the unlock timer of an earlier invocation
\* is still pending.
C12_NoPassBeforeTimerFires ==
    (lastInvocation.called /\ lastInvocation.passed) => lastInvocation.timersPending = {}

\* C13: whenever the lock is held it is free again later, also after handleCTASelectors
\* or a time-based trigger threw.
C13_LockEventuallyFree == timeLocked ~> ~timeLocked

\* C13 witness: the lock is free again after an invocation whose handleCTASelectors
\* threw and whose time-based trigger threw, while its unlock timer is still pending
C13_Witness ==
    /\ ~timeLocked
    /\ lastInvocation.called
    /\ lastInvocation.ctaThrew
    /\ lastInvocation.triggerThrew
    /\ lastInvocation.returned = "true"
    /\ lastInvocation.id \in TimerIds

-----------------------------------------------------------------------------
(* Report pages: getReportType, REPORTS_MODES and handleReportCase *)

MaxReportPages == 2     \* report pages handled per behaviour

\* the values of ?t= in the URL of a report page; "absent" is a URL without t
ReportTypeParams == {"0", "1", "2", "3", "absent"}

REPORTS_MODES == [EXPEDITION |-> "0", DUNGEON |-> "1", ARENA |-> "2", TURMA |-> "3"]

\* reportTypes[params.t] || "Unknown Report Type"
GetReportType(t) ==
    IF t = "0" THEN "Expedition"
    ELSE IF t = "1" THEN "Dungeon"
    ELSE IF t = "2" THEN "Arena"
    ELSE IF t = "3" THEN "Circus Turma"
    ELSE "Unknown Report Type"

\* what parseTurmaReport returns: null, or the opponent and the result read off the page
NoParse == [ok |-> FALSE]
Parsed(opponent, result) == [ok |-> TRUE, opponent |-> opponent, result |-> result]
ParsedReports == {NoParse} \cup {Parsed(o, r) : o \in Names, r \in PageResults}

\* window.getReportType() === window.REPORTS_MODES.TURMA
IsTurmaReport(t) == GetReportType(t) = REPORTS_MODES.TURMA

\* handleReportCase on a report page whose URL carries ?t=t and whose DOM makes
\* parseTurmaReport return parsedReport
HandleReportCase(c, t, parsedReport, writeOk) ==
    /\ phase[c] = "ready"
    /\ Len(handled) < MaxReportPages
    /\ handled' = Append(handled, [ctx |-> c, t |-> t, parsedReport |-> parsedReport])
    /\ IF IsTurmaReport(t) /\ parsedReport.ok
       THEN UpdateTurmaAttackHistory(c, NoReport, parsedReport.opponent,
                                     parsedReport.result, writeOk)
       ELSE /\ writeOk
            /\ UNCHANGED histVars
            /\ UNCHANGED selVars
            /\ UNCHANGED lockVars
            /\ UNCHANGED readVars
            /\ UNCHANGED prefVars
            /\ UNCHANGED screenVars

\* a page of the storage.js build, whose updateTurmaAttackHistory(opponent, result) is
\* the one handleReportCase calls, with an empty history loaded
InitReport == InitFold /\ variant = "flat"

NextReport ==
    \E t \in ReportTypeParams, parsedReport \in ParsedReports, writeOk \in BOOLEAN :
        HandleReportCase("pageA", t, parsedReport, writeOk)

SpecReport == InitReport /\ [][NextReport]_vars

\* C14: handleReportCase on a Circus Turma report (t=3) that parses calls
\* updateTurmaAttackHistory once, with the parsed opponent and result, and the history
\* is handed to storage.
C14_TurmaReportIsRecorded ==
    [][(/\ Len(handled') = Len(handled) + 1
        /\ handled'[Len(handled')].t = "3"
        /\ handled'[Len(handled')].parsedReport.ok)
       => (/\ Len(calls') = Len(calls) + 1
           /\ calls'[Len(calls')].opponent = handled'[Len(handled')].parsedReport.opponent
           /\ calls'[Len(calls')].result = handled'[Len(handled')].parsedReport.result
           /\ ~calls'[Len(calls')].threw)]_vars

-----------------------------------------------------------------------------
(* Selection against the history the update functions persist *)

\* the opponent records of the persisted history, where the build that wrote it keeps them
PersistedRecords == IF stored.present THEN OpponentsOf(stored.value) ELSE EmptyObj

\* C15: a candidate for whom updateTurmaAttackHistory has persisted a record with
\* attackCount > 0 is scored winRate = wins / attackCount, under the flat schema and
\* under the {reports, opponents} schema.
C15_ScoresFromPersistedRecord ==
    \A k \in 1..Len(runs) : \A j \in 1..Len(runs[k].opponents) :
        LET o == runs[k].opponents[j]
        IN  (/\ o.opponentName \in DOMAIN PersistedRecords
             /\ PersistedRecords[o.opponentName].attackCount > 0)
            => o.winRate.num * PersistedRecords[o.opponentName].attackCount
                  = PersistedRecords[o.opponentName].wins * o.winRate.den

-----------------------------------------------------------------------------
(* SpecLoad: loadTurmaHistory against every persisted history *)

InitLoad == InitSelect /\ page = <<>>

NextLoad == \E failed \in BOOLEAN : LoadTurmaHistoryCall(failed)

SpecLoad == InitLoad /\ [][NextLoad]_vars

\* C16: loadTurmaHistory resolves, with the persisted history when one is stored and
\* read, and with the empty default structure when nothing is stored or the read failed;
\* it never rejects.
C16_LoadAlwaysResolves ==
    historyLoad.called =>
        /\ historyLoad.outcome = "resolved"
        /\ historyLoad.value = IF stored.present /\ ~lastReadFailed THEN stored.value
                               ELSE IF variant = "report" THEN EmptyReportHistory
                               ELSE EmptyObj

\* C16 witness: a read error on a stored, non-empty history resolved to the default
C16_Witness ==
    /\ historyLoad.called
    /\ lastReadFailed
    /\ stored.present
    /\ historyLoad.outcome = "resolved"
    /\ historyLoad.value # stored.value

\* C17: when the storage read of selectOptimalAttack reports an error the promise is
\* rejected and no element is selected.
C17_ReadErrorRejects ==
    (Len(runs) > 0 /\ lastReadFailed) =>
        /\ runs[Len(runs)].outcome = "rejected"
        /\ runs[Len(runs)].value = Null
        /\ runs[Len(runs)].opponents = <<>>

\* C17 witness: the read failed on a page with a valid candidate and the call was rejected
C17_Witness ==
    /\ Len(runs) > 0
    /\ lastReadFailed
    /\ ValidCandidates # {}
    /\ runs[Len(runs)].outcome = "rejected"

-----------------------------------------------------------------------------
(* SpecWrite: one page folding events while storage writes may fail *)

NextWrite == PageRecord("pageA")

SpecWrite == InitFold /\ [][NextWrite]_vars

\* the number of folded events against opponent n
FoldedFor(n) ==
    Cardinality({i \in 1..Len(calls) : FoldedCall(i) /\ calls[i].opponent = n})

\* attackCount of opponent n in history h, 0 when h has no record of n
AttackCountIn(h, n) ==
    IF n \in DOMAIN OpponentsOf(h) THEN OpponentsOf(h)[n].attackCount ELSE 0

\* the in-memory history of the page counts every folded event
MemoryCountsAllFolded ==
    \A n \in Names : AttackCountIn(mem["pageA"], n) = FoldedFor(n)

\* C18: a call whose storage write fails returns normally, leaves the persisted entry
\* as it was and keeps the update in memory: the in-memory counters are those of all
\* folded events.
C18_FailedWriteKeepsMemory ==
    [][(/\ Len(calls') = Len(calls) + 1
        /\ ~calls'[Len(calls')].saved)
       => (/\ ~calls'[Len(calls')].threw
           /\ stored' = stored
           /\ MemoryCountsAllFolded')]_vars

\* C18 witness: after a saved event and one whose write failed, memory holds both and
\* the persisted entry only the first
C18_Witness ==
    /\ Len(calls) = 2
    /\ calls[1].saved /\ ~calls[2].saved /\ ~calls[2].threw
    /\ calls[1].opponent = calls[2].opponent
    /\ stored.present
    /\ AttackCountIn(mem["pageA"], calls[1].opponent) = 2
    /\ AttackCountIn(stored.value, calls[1].opponent) = 1

-----------------------------------------------------------------------------
(* Pages without candidates and pages with elements that are not candidates *)

\* run r got past the argument test and the storage read
ReadThePage(r) == r.branch \notin {"invalid", "storage"}

\* positions of the elements run r scored
ScoredPositions(r) == {r.opponents[j].attackDiv : j \in 1..Len(r.opponents)}

\* C19: on a page with no .attack element, or with none that has both a row and a
\* non-empty name, the promise resolves to null and is not rejected.
C19_NoCandidateResolvesNull ==
    \A k \in 1..Len(runs) :
        (ReadThePage(runs[k]) /\ ValidCandidates = {}) =>
            /\ runs[k].outcome = "resolved"
            /\ runs[k].value = Null

\* C19 witness: a page with a rowless element and an element with an empty name, and
\* a call on it that resolved to null
C19_Witness ==
    /\ Len(page) = 2
    /\ page[1].hasRow # page[2].hasRow
    /\ ValidCandidates = {}
    /\ \E k \in 1..Len(runs) : runs[k].outcome = "resolved" /\ runs[k].value = Null

\* C20: an element without a row or with an empty name is not scored and not selected,
\* and the valid candidates next to it are all scored and one of them is selected.
C20_BadElementIsSkipped ==
    \A k \in 1..Len(runs) :
        (ReadThePage(runs[k]) /\ ValidCandidates # {}) =>
            /\ ScoredPositions(runs[k]) = ValidCandidates
            /\ runs[k].outcome = "resolved"
            /\ runs[k].value \in ValidCandidates

\* C20 witness: a page with one bad element in front of one valid candidate, and a call
\* on it that scored and selected the valid one
C20_Witness ==
    /\ Len(page) = 2
    /\ ValidCandidates = {2}
    /\ \E k \in 1..Len(runs) :
          /\ ScoredPositions(runs[k]) = {2}
          /\ runs[k].value = 2

-----------------------------------------------------------------------------
(* The argument test of selectOptimalAttack *)

\* the latest call was handed something that is not a jQuery object
CalledWithNonJQuery == "topElementIsJQuery" \in DOMAIN sel /\ ~sel.topElementIsJQuery

\* C21: a call with an argument that is not a jQuery object is rejected at once; it
\* never gets to the storage read and selects no element.
C21_NonJQueryRejectsAtOnce ==
    CalledWithNonJQuery =>
        /\ sel.pc = "idle"
        /\ Len(runs) > 0
        /\ runs[Len(runs)].outcome = "rejected"
        /\ runs[Len(runs)].value = Null
        /\ runs[Len(runs)].opponents = <<>>

\* C21 witness: a call with a non-jQuery argument on a page that holds a valid candidate
\* was rejected, after an earlier call on the same page had selected an element
C21_Witness ==
    /\ CalledWithNonJQuery
    /\ ValidCandidates # {}
    /\ Len(runs) = 2
    /\ runs[1].outcome = "resolved" /\ runs[1].value # Null
    /\ runs[2].outcome = "rejected"

-----------------------------------------------------------------------------
(* SpecReadable: page loads whose read of gladex_turma_history always succeeds *)

PageLoadReadable(c) ==
    \E settingsReadError \in BOOLEAN, settingsWriteOk \in BOOLEAN :
        InitExtension(c, settingsReadError, FALSE, settingsWriteOk)

NextReadable == PageLoadReadable("pageA") \/ PageRecord("pageA")

SpecReadable == Init /\ [][NextReadable]_vars

\* C22: after initExtension the in-memory history is the persisted one, whenever one is
\* persisted and its read succeeds, also when loadSettings rejected.
C22_MemoryIsPersistedAfterInit ==
    [][(loads' = loads + 1 /\ stored.present) => mem'["pageA"] = stored.value]_vars

-----------------------------------------------------------------------------
(* Repeated report ids and the whole store *)

\* C23: in the report-keyed build, a call whose reportId is already in reports leaves
\* the whole in-memory store as it was: reports, opponent records and reportIds lists,
\* also when the repeated id comes with another opponent name.
C23_RepeatedReportIdKeepsStore ==
    [][RepeatedReportStep => mem' = mem]_vars

-----------------------------------------------------------------------------
(* Ties at the top of the ranking *)

\* positions in the ranking of run r whose scores equal those of its first entry
TiedWithTop(r) ==
    {j \in 1..Len(r.opponents) :
        /\ RatEq(r.opponents[j].winRate, r.opponents[1].winRate)
        /\ RatEq(r.opponents[j].averageGold, r.opponents[1].averageGold)}

-----------------------------------------------------------------------------
(* SpecMalformed: events whose goldWon or xpGained is missing or is not a number *)

\* a text that starts with the digits of n and goes on with letters, such as "7 gold":
\* Number() of it is NaN
JsText(n) == [t |-> "text", v |-> n]

MalformedResults ==
    [state    : States,
     goldWon  : {JsUndef, JsText(7), JsNum(30)},
     xpGained : {JsText(7), JsNum(5)}]

NextMalformed ==
    \E reportId \in ReportIds \cup {NoReport}, result \in MalformedResults :
        /\ UpdateTurmaAttackHistory("pageA", reportId, "Ann", result, TRUE)
        /\ UNCHANGED handled

SpecMalformed == InitFold /\ [][NextMalformed]_vars

\* the amount a field adds when only a JavaScript number counts
NumberElse0(x) == IF x.t = "number" THEN x.v ELSE 0

\* the folded events against opponent n
FoldedCalls(n) == {i \in 1..Len(calls) : FoldedCall(i) /\ calls[i].opponent = n}

RECURSIVE SumOver(_, _, _)
SumOver(I, field, onlyWins) ==
    IF I = {} THEN 0
    ELSE LET i == CHOOSE x \in I : TRUE
         IN  SumOver(I \ {i}, field, onlyWins) +
             (IF onlyWins /\ calls[i].result.state # "win" THEN 0
              ELSE NumberElse0(calls[i].result[field]))

\* C25: an event whose goldWon or xpGained is missing or not a number is folded like
\* any other: no call throws, attackCount and the win/loss/draw counters count it, the
\* malformed field adds 0, and goldWon and xpGained of the record are numbers.
C25_MalformedFieldCountsZero ==
    /\ \A i \in 1..Len(calls) : ~calls[i].threw
    /\ \A n \in DOMAIN OpponentsOf(mem["pageA"]) :
          LET rec == OpponentsOf(mem["pageA"])[n]
          IN  /\ rec.attackCount = Cardinality(FoldedCalls(n))
              /\ rec.wins + rec.losses + rec.draws = rec.attackCount
              /\ rec.wins = Cardinality({i \in FoldedCalls(n) : calls[i].result.state = "win"})
              /\ rec.goldWon = SumOver(FoldedCalls(n), "goldWon", TRUE)
              /\ rec.xpGained \in 0..SumOver(FoldedCalls(n), "xpGained", FALSE)

\* C25 witness: a win whose goldWon is missing and whose xpGained is a text, after a
\* win of gold 30: two attacks, two wins, gold 30
C25_Witness ==
    /\ Len(calls) = 2
    /\ calls[1].result = [state |-> "win", goldWon |-> JsNum(30), xpGained |-> JsNum(5)]
    /\ calls[2].result = [state |-> "win", goldWon |-> JsUndef, xpGained |-> JsText(7)]
    /\ FoldedCall(2)
    /\ OpponentsOf(mem["pageA"])["Ann"].attackCount = 2
    /\ OpponentsOf(mem["pageA"])["Ann"].wins = 2
    /\ OpponentsOf(mem["pageA"])["Ann"].goldWon = 30

-----------------------------------------------------------------------------
(* SpecRoundTrip: a page that loads the history and saves what it loaded *)

\* loadTurmaHistory() followed by the chrome.storage.local.set of the loaded object,
\* with no event folded in between
LoadThenStore(c, readError, writeOk) ==
    LET loaded == LoadTurmaHistory(variant, stored, readError)
    IN  /\ phase[c] = "ready"
        /\ mem' = [mem EXCEPT ![c] = loaded]
        /\ stored' = StorageSet(stored, loaded, writeOk)
        /\ lastReadFailed' = readError
        /\ UNCHANGED prefVars
        /\ UNCHANGED screenVars
        /\ historyLoad' = [called  |-> TRUE,
                           outcome |-> LoadOutcome(readError),
                           value   |-> loaded]
        /\ UNCHANGED <<variant, settingsStored, phase, calls, loads>>
        /\ UNCHANGED selVars
        /\ UNCHANGED lockVars
        /\ UNCHANGED handled

NextRoundTrip ==
    \/ PageLoad("pageA")
    \/ PageRecord("pageA")
    \/ \E readError \in BOOLEAN, writeOk \in BOOLEAN :
           LoadThenStore("pageA", readError, writeOk)

SpecRoundTrip == Init /\ [][NextRoundTrip]_vars

\* a step that loads and saves and folds nothing
RoundTripStep == calls' = calls /\ loads' = loads /\ historyLoad'.called

\* C26: loading the history and saving what was loaded, with no event folded, leaves
\* a persisted gladex_turma_history value as it was.
C26_LoadThenStoreKeepsPersisted ==
    [][(RoundTripStep /\ stored.present) => stored' = stored]_vars

-----------------------------------------------------------------------------
(* SpecSettings: page loads of an install whose persisted settings are arbitrary *)

\* what the persisted settings can hold under a key: a null, a falsy value of the
\* key's type, or another value of that type
SettingValues(k) ==
    IF k = "autoHeal" THEN {JsNull, JsBool(FALSE), JsBool(TRUE)}
    ELSE {JsNull, JsNum(0), JsNum(5)}

\* every object over a subset of the keys
SettingsObjects ==
    UNION {{s \in [K -> UNION {SettingValues(k) : k \in K}] :
                \A k \in K : s[k] \in SettingValues(k)} :
           K \in SUBSET DOMAIN default_settings}

InitSettings ==
    /\ variant \in {"flat", "report"}
    /\ stored = NotStored
    /\ settingsEntry \in {NoSettings} \cup {StoredSettings(s) : s \in SettingsObjects}
    /\ settingsStored = settingsEntry.present
    /\ settings = [c \in Contexts |-> EmptyObj]
    /\ mem = [c \in Contexts |-> FreshHistory]
    /\ phase = [c \in Contexts |-> "closed"]
    /\ calls = <<>>
    /\ loads = 0
    /\ page = <<>>
    /\ sel = NoSelection
    /\ runs = <<>>
    /\ handled = <<>>
    /\ lastReadFailed = FALSE
    /\ historyLoad = NoLoad
    /\ ScreenIdle
    /\ LockFree

NextSettings == PageLoad("pageA")

SpecSettings == InitSettings /\ [][NextSettings]_vars

\* the persisted settings hold a value other than null under key k
HoldsValue(entry, k) ==
    /\ entry.present
    /\ k \in DOMAIN entry.value
    /\ entry.value[k] # JsNull

\* C27: after initExtension, window.settings[k] is the persisted value when the persisted
\* settings hold a non-null value under k, false and 0 included, and the default
\* otherwise, for every key k of default_settings.
C27_StoredValueElseDefault ==
    [][loads' = loads + 1 =>
          \A k \in DOMAIN default_settings :
              /\ k \in DOMAIN settings'["pageA"]
              /\ settings'["pageA"][k] = IF HoldsValue(settingsEntry, k)
                                         THEN settingsEntry.value[k]
                                         ELSE default_settings[k]]_vars

-----------------------------------------------------------------------------
(* forceReload under the lock model *)

\* a step in which an unlock timer fires while window.settings.forceReload is true
ReloadStep == forceReload /\ timers # <<>> /\ Len(timers') < Len(timers)

\* C28: when the unlock timer fires with forceReload true, forceReload is false afterwards
\* in the persisted settings and in the settings the reloaded page starts with, so that
\* the reloaded page does not reload again without a new trigger.
C28_ReloadClearsForceReload ==
    [][ReloadStep => (~storedForceReload' /\ ~forceReload')]_vars

-----------------------------------------------------------------------------
(* cooldowns.js: handleCTASelectors *)

\* the keys of window.CTA_SELECTORS in their enumeration order
CtaKeys == <<"THOROUGH_SEARCH", "START_DUNGEON", "LEVEL_UP", "CONFIRM_ATTACK">>

\* the screens on which the CTA loop runs
CtaScreens == {"arena", "overview", "dungeon", "reports", "location"}

\* values of ?mod= the page is opened with; "none" is a URL without the parameter
Mods == {"overview", "dungeon", "reports", "training", "forge", "none"}

\* for each key, whether CTA_SELECTORS holds an element (TRUE) or null (FALSE)
CtaPages == [1..Len(CtaKeys) -> BOOLEAN]

\* the first key whose value is an element, 0 when every value is null
FirstPresent(present) ==
    IF \E i \in DOMAIN present : present[i]
    THEN CHOOSE i \in DOMAIN present :
            present[i] /\ \A j \in DOMAIN present : present[j] => i <= j
    ELSE 0

\* handleCTASelectors(): the keys it clicked, in order, and its return value
HandleCTASelectorsResult(isObject, mod, present) ==
    IF ~isObject THEN [clicked |-> <<>>, returned |-> FALSE]
    ELSE IF mod \notin CtaScreens THEN [clicked |-> <<>>, returned |-> TRUE]
    ELSE IF FirstPresent(present) # 0
         THEN [clicked |-> <<FirstPresent(present)>>, returned |-> TRUE]
         ELSE [clicked |-> <<>>, returned |-> FALSE]

HandleCTASelectors(isObject, mod, present) ==
    /\ ctaRun' = [called   |-> TRUE,
                  mod      |-> mod,
                  present  |-> present,
                  clicked  |-> HandleCTASelectorsResult(isObject, mod, present).clicked,
                  returned |-> HandleCTASelectorsResult(isObject, mod, present).returned]
    /\ UNCHANGED <<dungeonRun, handlerRun>>
    /\ UNCHANGED histVars
    /\ UNCHANGED selVars
    /\ UNCHANGED lockVars
    /\ UNCHANGED readVars
    /\ UNCHANGED prefVars
    /\ UNCHANGED handled

InitCTA == InitLock

NextCTA ==
    \E isObject \in BOOLEAN, mod \in Mods, present \in CtaPages :
        HandleCTASelectors(isObject, mod, present)

SpecCTA == InitCTA /\ [][NextCTA]_vars

\* C29: handleCTASelectors clicks at most one element per call, the first one present
\* in key order, and returns true exactly when it clicked one.
C29_TrueExactlyWhenClicked ==
    ctaRun.called =>
        /\ Len(ctaRun.clicked) <= 1
        /\ \A i \in 1..Len(ctaRun.clicked) :
              /\ ctaRun.present[ctaRun.clicked[i]]
              /\ \A j \in 1..(ctaRun.clicked[i] - 1) : ~ctaRun.present[j]
        /\ ctaRun.returned <=> (Len(ctaRun.clicked) = 1)

-----------------------------------------------------------------------------
(* dungeon-logic.js: selectOpponent and its two strategies *)

MaxOpponents == 3   \* elements returned by getPotentialOpponents
MaxMatch     == 2   \* largest number in an onclick attribute

\* extractMatchNumber gives null
NoNumber == -1

\* an element of getPotentialOpponents: its nodeName and what extractMatchNumber gives
DungeonElements == [nodeName : {"DIV", "IMG"}, matchNum : {NoNumber} \cup 0..MaxMatch]

PotentialOpponents == UNION {[1..n -> DungeonElements] : n \in 0..MaxOpponents}

\* (current, selected) => current > selected, and (current, selected) => current < selected
Comparator(strategy, current, selected) ==
    IF strategy = "fast" THEN current > selected ELSE current < selected

\* a selectOpponent without the tie rule
TieAndDiv_Never(matchNum, chosenMatchNumber, nodeName) == FALSE

\* matchNum === chosenMatchNumber && opponent.nodeName === "DIV"
TieAndDiv(matchNum, chosenMatchNumber, nodeName) ==
    matchNum = chosenMatchNumber /\ nodeName = "DIV"

\* the forEach of selectOpponent over the first n elements: the position of `chosen`
\* (0 for null) and chosenMatchNumber
RECURSIVE SelectOpponentUpTo(_, _, _)
SelectOpponentUpTo(strategy, opponents, n) ==
    IF n = 0 THEN [chosen |-> 0, chosenMatchNumber |-> NoNumber]
    ELSE LET before   == SelectOpponentUpTo(strategy, opponents, n - 1)
             opponent == opponents[n]
         IN  IF opponent.matchNum = NoNumber THEN before
             ELSE IF \/ before.chosen = 0
                     \/ Comparator(strategy, opponent.matchNum, before.chosenMatchNumber)
                     \/ TieAndDiv(opponent.matchNum, before.chosenMatchNumber,
                                  opponent.nodeName)
                  THEN [chosen |-> n, chosenMatchNumber |-> opponent.matchNum]
                  ELSE before

SelectOpponent(strategy, opponents) ==
    SelectOpponentUpTo(strategy, opponents, Len(opponents)).chosen

\* selectDungeonOpponentFast() / selectDungeonOpponentSlow() on a page; the function
\* keeps nothing between calls, so one call per page is examined
SelectDungeonOpponent(strategy, opponents) ==
    /\ dungeonRun' = [called    |-> TRUE,
                      strategy  |-> strategy,
                      opponents |-> opponents,
                      chosen    |-> SelectOpponent(strategy, opponents)]
    /\ UNCHANGED <<ctaRun, handlerRun>>
    /\ UNCHANGED histVars
    /\ UNCHANGED selVars
    /\ UNCHANGED lockVars
    /\ UNCHANGED readVars
    /\ UNCHANGED prefVars
    /\ UNCHANGED handled

InitDungeon == InitLock

NextDungeon ==
    /\ ~dungeonRun.called
    /\ \E strategy \in {"fast", "slow"}, opponents \in PotentialOpponents :
           SelectDungeonOpponent(strategy, opponents)

SpecDungeon == InitDungeon /\ [][NextDungeon]_vars

\* the positions of the elements with a parseable number
Parseable(opponents) == {i \in 1..Len(opponents) : opponents[i].matchNum # NoNumber}

\* C30: the fast strategy returns an element whose number is the maximum over the
\* elements with a parseable number, the slow strategy one whose number is the minimum;
\* a DIV is returned when a DIV holds that extreme; an element without a number is
\* never returned, and null is returned exactly when no element has a number.
C30_ExtremeNumberDivFirst ==
    dungeonRun.called =>
        LET opponents == dungeonRun.opponents
            chosen    == dungeonRun.chosen
        IN  IF Parseable(opponents) = {} THEN chosen = 0
            ELSE /\ chosen \in Parseable(opponents)
                 /\ \A i \in Parseable(opponents) :
                       IF dungeonRun.strategy = "fast"
                       THEN opponents[i].matchNum <= opponents[chosen].matchNum
                       ELSE opponents[i].matchNum >= opponents[chosen].matchNum
                 /\ (\E i \in Parseable(opponents) :
                        /\ opponents[i].matchNum = opponents[chosen].matchNum
                        /\ opponents[i].nodeName = "DIV")
                       => opponents[chosen].nodeName = "DIV"

\* C30 witness: an IMG and then a DIV share the largest number, next to an element
\* without a number; the fast strategy returns the DIV
C30_Witness ==
    /\ dungeonRun.called
    /\ dungeonRun.strategy = "fast"
    /\ dungeonRun.opponents = <<[nodeName |-> "IMG", matchNum |-> 2],
                                [nodeName |-> "DIV", matchNum |-> 2],
                                [nodeName |-> "DIV", matchNum |-> NoNumber]>>
    /\ dungeonRun.chosen = 2

-----------------------------------------------------------------------------
(* locations.js: handleDungeonCase *)

MaxDungeonPage == 2   \* candidate elements on the dungeon page handed to handleDungeonCase

\* window.DUNGEON_STRATEGIES
DUNGEON_STRATEGIES == [SLOW |-> 0, FAST |-> 1]

\* a candidate with what handleDungeonCase reads of it: whether it has a src attribute
\* and whether its lower-cased innerText includes "boss"
DungeonPageElements ==
    [nodeName : {"DIV", "IMG"}, matchNum : {NoNumber, 1, 2}, hasSrc : BOOLEAN, boss : BOOLEAN]

DungeonPages == UNION {[1..n -> DungeonPageElements] : n \in 0..MaxDungeonPage}

DungeonInputs ==
    [autoDungeon : BOOLEAN, cooldown : {0, 60}, dungeonBossFight : BOOLEAN,
     dungeonStrategy : {DUNGEON_STRATEGIES.SLOW, DUNGEON_STRATEGIES.FAST},
     hasForms : BOOLEAN]

\* the position of the opponent handleDungeonCase selects, 0 for null
DungeonOpponent(in, opponents) ==
    IF in.dungeonStrategy = DUNGEON_STRATEGIES.SLOW
    THEN SelectOpponent("slow", opponents)
    ELSE SelectOpponent("fast", opponents)

\* !settings.dungeonBossFight && opponent?.innerText?.toLowerCase().includes("boss")
SkipBoss(in, opponents, o) == ~in.dungeonBossFight /\ o # 0 /\ opponents[o].boss

\* !opponent?.getAttribute("src")
NoSrc(opponents, o) == o = 0 \/ ~opponents[o].hasSrc

\* an exit test that leaves the src attribute out
ExitsDungeon_IgnoresSrc(in, opponents, o) == SkipBoss(in, opponents, o)

\* if (!opponent?.getAttribute("src") && skipBoss)
ExitsDungeon(in, opponents, o) == NoSrc(opponents, o) /\ SkipBoss(in, opponents, o)

\* handleDungeonCase(): the positions of the opponents it clicked, whether it clicked
\* the dungeon form buttons and whether it called exitDungeon
HandleDungeonCaseResult(in, opponents) ==
    IF ~in.autoDungeon \/ in.cooldown # 0
    THEN [clicked |-> <<>>, formsClicked |-> FALSE, exited |-> FALSE]
    ELSE LET o == DungeonOpponent(in, opponents)
         IN  IF ExitsDungeon(in, opponents, o)
             THEN [clicked |-> <<>>, formsClicked |-> in.hasForms, exited |-> TRUE]
             ELSE [clicked |-> IF o # 0 THEN <<o>> ELSE <<>>,
                   formsClicked |-> in.hasForms, exited |-> FALSE]

HandleDungeonCase(in, opponents) ==
    /\ handlerRun' = [called    |-> TRUE,
                      handler   |-> "handleDungeonCase",
                      in        |-> in,
                      opponents |-> opponents,
                      did       |-> HandleDungeonCaseResult(in, opponents)]
    /\ UNCHANGED <<ctaRun, dungeonRun>>
    /\ UNCHANGED histVars
    /\ UNCHANGED selVars
    /\ UNCHANGED lockVars
    /\ UNCHANGED readVars
    /\ UNCHANGED prefVars
    /\ UNCHANGED handled

InitDungeonCase == InitLock

\* the handler keeps nothing between calls, so one call per page is examined
NextDungeonCase ==
    /\ ~handlerRun.called
    /\ \E in \in DungeonInputs, opponents \in DungeonPages : HandleDungeonCase(in, opponents)

SpecDungeonCase == InitDungeonCase /\ [][NextDungeonCase]_vars

\* the opponent of the strategy in force, as the extreme over the parseable candidates
\* with a DIV preferred: the position SelectOpponent is shown to return
IsSelected(run, o) ==
    LET ps == Parseable(run.opponents)
    IN  IF ps = {} THEN o = 0
        ELSE /\ o \in ps
             /\ \A i \in ps :
                   IF run.in.dungeonStrategy = 0
                   THEN run.opponents[i].matchNum >= run.opponents[o].matchNum
                   ELSE run.opponents[i].matchNum <= run.opponents[o].matchNum

\* a label whose text contains "boss", met with dungeonBossFight off
BossLabel(run, o) ==
    o # 0 /\ ~run.in.dungeonBossFight /\ ~run.opponents[o].hasSrc /\ run.opponents[o].boss

\* C31: with autoDungeon on and the cooldown at 0, a selected label that reads "boss"
\* with dungeonBossFight off makes the handler exit the dungeon without clicking it; in
\* every other case the selected opponent, if any, is clicked and the dungeon is not
\* exited; with autoDungeon off or the cooldown not 0 nothing is clicked.
C31_BossLabelExitsElseClicks ==
    (handlerRun.called /\ handlerRun.handler = "handleDungeonCase") =>
        LET run == handlerRun
            did == handlerRun.did
        IN  IF ~run.in.autoDungeon \/ run.in.cooldown # 0
            THEN did.clicked = <<>> /\ ~did.formsClicked /\ ~did.exited
            ELSE \E o \in 0..Len(run.opponents) :
                    /\ IsSelected(run, o)
                    /\ IF BossLabel(run, o)
                       THEN did.exited /\ did.clicked = <<>>
                       ELSE /\ ~did.exited
                            /\ did.clicked = IF o = 0 THEN <<>> ELSE <<o>>

\* C31 witness: the fast strategy selects the label "boss" (number 2) over an image
\* (number 1) with dungeonBossFight off: the dungeon is exited and nothing is clicked
C31_Witness ==
    /\ handlerRun.called
    /\ handlerRun.handler = "handleDungeonCase"
    /\ handlerRun.in.autoDungeon /\ handlerRun.in.cooldown = 0
    /\ ~handlerRun.in.dungeonBossFight
    /\ handlerRun.in.dungeonStrategy = 1
    /\ handlerRun.opponents =
          <<[nodeName |-> "IMG", matchNum |-> 1, hasSrc |-> TRUE, boss |-> FALSE],
            [nodeName |-> "DIV", matchNum |-> 2, hasSrc |-> FALSE, boss |-> TRUE]>>
    /\ handlerRun.did.exited
    /\ handlerRun.did.clicked = <<>>

-----------------------------------------------------------------------------
(* healing.js: useOptimalFood *)

MaxFoods == 3   \* div[data-content-type="64"] elements in the inventory
MaxHp    == 3   \* largest max-value of the HP bar

\* extractHealingValue gives null
NoHealing == -1

\* what extractHealingValue gives for the tooltip of a food item
Healings == {NoHealing, 1, 2, 4}

Inventories == UNION {[1..n -> Healings] : n \in 0..MaxFoods}

\* getHealthPoints(): { current, max }
HealthPoints == [current : 0..MaxHp, max : 0..MaxHp]

\* foods: the inventory positions whose tooltip has a healing value, in page order
RECURSIVE Foods(_, _)
Foods(inventory, n) ==
    IF n = 0 THEN <<>>
    ELSE IF inventory[n] = NoHealing THEN Foods(inventory, n - 1)
    ELSE Append(Foods(inventory, n - 1), n)

\* a test that takes every food that does not over-heal, the last one winning
IsCloser_AnyFitting(diff, found, smallestDiff) == diff >= 0

\* diff >= 0 && diff < smallestDiff, where smallestDiff is Infinity until a food is found
IsCloser(diff, found, smallestDiff) == diff >= 0 /\ (~found \/ diff < smallestDiff)

\* the forEach over foods[1..n]: optimalFood (0 for null) and smallestDiff
RECURSIVE ClosestUpTo(_, _, _, _)
ClosestUpTo(inventory, foods, missing, n) ==
    IF n = 0 THEN [optimalFood |-> 0, smallestDiff |-> 0]
    ELSE LET before == ClosestUpTo(inventory, foods, missing, n - 1)
             diff   == missing - inventory[foods[n]]
         IN  IF IsCloser(diff, before.optimalFood # 0, before.smallestDiff)
             THEN [optimalFood |-> foods[n], smallestDiff |-> diff]
             ELSE before

\* foods.reduce((acc, cur) => (acc.healing < cur.healing ? acc : cur)) over foods[1..n]
RECURSIVE SmallestUpTo(_, _, _)
SmallestUpTo(inventory, foods, n) ==
    IF n = 1 THEN foods[1]
    ELSE LET acc == SmallestUpTo(inventory, foods, n - 1)
             cur == foods[n]
         IN  IF inventory[acc] < inventory[cur] THEN acc ELSE cur

\* useOptimalFood(): the inventory positions dragged onto the avatar, in order
UseOptimalFoodResult(inventory, hp, hasDropTarget) ==
    LET foods   == Foods(inventory, Len(inventory))
        missing == hp.max - hp.current
    IN  IF Len(inventory) = 0 \/ Len(foods) = 0 \/ missing <= 0 THEN <<>>
        ELSE LET closest == ClosestUpTo(inventory, foods, missing, Len(foods)).optimalFood
                 optimalFood == IF closest # 0 THEN closest
                                ELSE SmallestUpTo(inventory, foods, Len(foods))
             IN  IF hasDropTarget THEN <<optimalFood>> ELSE <<>>

UseOptimalFood(inventory, hp, hasDropTarget) ==
    /\ handlerRun' = [called        |-> TRUE,
                      handler       |-> "useOptimalFood",
                      inventory     |-> inventory,
                      hp            |-> hp,
                      hasDropTarget |-> hasDropTarget,
                      used          |-> UseOptimalFoodResult(inventory, hp, hasDropTarget)]
    /\ UNCHANGED <<ctaRun, dungeonRun>>
    /\ UNCHANGED histVars
    /\ UNCHANGED selVars
    /\ UNCHANGED lockVars
    /\ UNCHANGED readVars
    /\ UNCHANGED prefVars
    /\ UNCHANGED handled

InitFood == InitLock

\* the function keeps nothing between calls, so one call per page is examined
NextFood ==
    /\ ~handlerRun.called
    /\ \E inventory \in Inventories, hp \in HealthPoints, hasDropTarget \in BOOLEAN :
           UseOptimalFood(inventory, hp, hasDropTarget)

SpecFood == InitFood /\ [][NextFood]_vars

\* the positions of the items with a parseable healing value
Healing(inventory) == {i \in 1..Len(inventory) : inventory[i] # NoHealing}

\* item i is the one the call is to use: the greatest healing not above the missing HP
\* when an item fits, the smallest healing otherwise
IsOptimalFood(inventory, missing, i) ==
    LET fitting == {j \in Healing(inventory) : inventory[j] <= missing}
    IN  /\ i \in Healing(inventory)
        /\ IF fitting # {}
           THEN i \in fitting /\ \A j \in fitting : inventory[j] <= inventory[i]
           ELSE \A j \in Healing(inventory) : inventory[i] <= inventory[j]

\* C32: useOptimalFood uses at most one item per call; the item used is the one with the
\* greatest healing value not above the missing HP when there is one, else the one with
\* the smallest healing value, and it is used whenever the drop target is on the page;
\* nothing is used when the missing HP is <= 0 or no item has a healing value.
C32_UsesBestFittingFood ==
    (handlerRun.called /\ handlerRun.handler = "useOptimalFood") =>
        LET inventory == handlerRun.inventory
            missing   == handlerRun.hp.max - handlerRun.hp.current
            used      == handlerRun.used
        IN  /\ Len(used) <= 1
            /\ \A k \in 1..Len(used) : IsOptimalFood(inventory, missing, used[k])
            /\ (missing <= 0 \/ Healing(inventory) = {}) => used = <<>>
            /\ (missing > 0 /\ Healing(inventory) # {} /\ handlerRun.hasDropTarget)
                  => Len(used) = 1

\* C32 witness: 3 HP are missing and the inventory holds foods healing 1, 4 and 2 in
\* that order: the food healing 2 is used
C32_Witness ==
    /\ handlerRun.called
    /\ handlerRun.handler = "useOptimalFood"
    /\ handlerRun.inventory = <<1, 4, 2>>
    /\ handlerRun.hp = [current |-> 0, max |-> 3]
    /\ handlerRun.used = <<3>>

-----------------------------------------------------------------------------
(* locations.js: handleHomeCase, the handler of the overview screen *)

\* default_settings.minHP, 0.25
MinHP == Rat(1, 4)

\* getCurrentHP(): data-value over data-max-value of the HP bar, the divisor 1 when
\* max-value is 0 or missing
GetCurrentHP(bar) == Rat(bar.current, IF bar.max = 0 THEN 1 ELSE bar.max)

\* getHealthPoints() for the same bar
GetHealthPoints(bar) == IF bar.max = 0 THEN [current |-> 0, max |-> 0] ELSE bar

\* handleHomeCase(): with the HP ratio below settings.minHP it sets forceReload through
\* update_settings and calls useOptimalFood; settings.autoHeal is not read
HandleHomeCase(autoHeal, bar, inventory, hasDropTarget, writeOk) ==
    LET low == RatLess(GetCurrentHP(bar), MinHP)
    IN  /\ handlerRun' =
               [called    |-> TRUE,
                handler   |-> "handleHomeCase",
                autoHeal  |-> autoHeal,
                bar       |-> bar,
                inventory |-> inventory,
                used      |-> IF low
                              THEN UseOptimalFoodResult(inventory, GetHealthPoints(bar),
                                                        hasDropTarget)
                              ELSE <<>>]
        /\ forceReload' = (low \/ forceReload)
        /\ storedForceReload' = IF low /\ writeOk THEN TRUE ELSE storedForceReload
        /\ UNCHANGED <<timeLocked, timers, microtasks, batch, invoked, lastInvocation, now>>
        /\ UNCHANGED <<ctaRun, dungeonRun>>
        /\ UNCHANGED histVars
        /\ UNCHANGED selVars
        /\ UNCHANGED readVars
        /\ UNCHANGED prefVars
        /\ UNCHANGED handled

InitHome == InitLock

\* one page load of the overview screen
NextHome ==
    /\ ~handlerRun.called
    /\ \E autoHeal \in BOOLEAN, bar \in HealthPoints, inventory \in Inventories,
          hasDropTarget \in BOOLEAN, writeOk \in BOOLEAN :
           HandleHomeCase(autoHeal, bar, inventory, hasDropTarget, writeOk)

SpecHome == InitHome /\ [][NextHome]_vars

\* C33: with autoHeal false no food is used, whatever the HP ratio and the screen.
C33_NoFoodWithoutAutoHeal ==
    (handlerRun.called /\ handlerRun.handler = "handleHomeCase" /\ ~handlerRun.autoHeal)
        => handlerRun.used = <<>>

-----------------------------------------------------------------------------
(* SpecStale: the settings page saves while game pages loaded earlier are still open *)

\* the objects onSaveSettings can build from the form: every key is present and holds a
\* boolean or a number
FormSettings ==
    [autoHeal : {JsBool(FALSE), JsBool(TRUE)}, expeditionLevel : {JsNum(0), JsNum(5)}]

\* onSaveSettings(): chrome.storage.local.set({ gladex_settings: newSettings }); the
\* object has no forceReload key
OnSaveSettings(newSettings, writeOk) ==
    /\ handlerRun' = [called  |-> TRUE,
                      handler |-> "onSaveSettings",
                      saved   |-> newSettings,
                      savedOk |-> writeOk]
    /\ settingsEntry' = IF writeOk THEN StoredSettings(newSettings) ELSE settingsEntry
    /\ settingsStored' = (writeOk \/ settingsStored)
    /\ storedForceReload' = IF writeOk THEN FALSE ELSE storedForceReload
    /\ UNCHANGED <<timeLocked, timers, microtasks, batch, invoked, lastInvocation, now,
                   forceReload>>
    /\ UNCHANGED <<variant, stored, mem, phase, calls, loads>>
    /\ UNCHANGED <<settings, ctaRun, dungeonRun>>
    /\ UNCHANGED selVars
    /\ UNCHANGED readVars
    /\ UNCHANGED handled

\* update_settings("forceReload", value) on page c: the key is set in window.settings
\* and storeSettings writes the whole window.settings of that page
UpdateSettings(c, value, writeOk) ==
    /\ phase[c] = "ready"
    /\ handlerRun' = [called    |-> TRUE,
                      handler   |-> "update_settings",
                      ctx       |-> c,
                      written   |-> writeOk,
                      afterSave |-> handlerRun.called,
                      saved     |-> IF handlerRun.called THEN handlerRun.saved ELSE EmptyObj,
                      savedOk   |-> IF handlerRun.called THEN handlerRun.savedOk ELSE FALSE]
    /\ forceReload' = value
    /\ storedForceReload' = IF writeOk THEN value ELSE storedForceReload
    /\ settingsEntry' = IF writeOk THEN StoredSettings(settings[c]) ELSE settingsEntry
    /\ settingsStored' = (writeOk \/ settingsStored)
    /\ UNCHANGED <<timeLocked, timers, microtasks, batch, invoked, lastInvocation, now>>
    /\ UNCHANGED <<variant, stored, mem, phase, calls, loads>>
    /\ UNCHANGED <<settings, ctaRun, dungeonRun>>
    /\ UNCHANGED selVars
    /\ UNCHANGED readVars
    /\ UNCHANGED handled

InitStale == InitRace

\* the game pages load, the user saves once from the settings page, and the pages that
\* are open go on calling update_settings
NextStale ==
    \/ /\ ~handlerRun.called
       /\ \E c \in Contexts : phase[c] = "closed" /\ InitExtension(c, FALSE, FALSE, TRUE)
    \/ /\ ~handlerRun.called
       /\ \E newSettings \in FormSettings, writeOk \in BOOLEAN :
              OnSaveSettings(newSettings, writeOk)
    \/ \E c \in Contexts, value \in BOOLEAN, writeOk \in BOOLEAN :
           UpdateSettings(c, value, writeOk)

SpecStale == InitStale /\ [][NextStale]_vars

\* C34: after a save from the settings page went through, an update_settings call of a
\* page loaded before the save leaves the saved value in storage under every key other
\* than the one it updates.
C34_SavedSettingsSurviveUpdate ==
    (/\ handlerRun.called
     /\ handlerRun.handler = "update_settings"
     /\ handlerRun.afterSave
     /\ handlerRun.savedOk)
        => \A k \in DOMAIN handlerRun.saved :
              /\ k \in DOMAIN settingsEntry.value
              /\ settingsEntry.value[k] = handlerRun.saved[k]

-----------------------------------------------------------------------------
(* locations.js: handleTurmaCase and handleArenaCase around selectOptimalAttack *)

ConfirmDelay == 1000   \* setTimeout(..., 1000) before the confirm click

AttackHandlers == {"handleTurmaCase", "handleArenaCase"}

\* the persisted histories the attack screens are examined against
AttackScreenHistories ==
    {NotStored,
     Stored(WithFights(EmptyObj, "Ann", 1, 100, 0)),
     Stored(WithFights(EmptyObj, "Ann", 0, 0, 1))}

\* a handler that clicks whatever the selection settled with
ClicksOpponent_Always(run) == TRUE

\* `if (opponent)` after the await: the promise resolved with an element
ClicksOpponent(run) == run.outcome = "resolved" /\ run.value # Null

\* the await sits inside try { ... } catch (err) { console.error(...) }
AwaitInsideTry == TRUE

\* handleTurmaCase() / handleArenaCase() up to its await: the auto* setting and the
\* #own3 / #own2 container are tested, then selectOptimalAttack is called with the
\* jQuery object and has issued its chrome.storage.local.get
AttackCaseStart(h, auto, hasContainer) ==
    /\ ~handlerRun.called
    /\ sel.pc = "idle"
    /\ Len(runs) < MaxRuns
    /\ handlerRun' = [called     |-> TRUE,
                      handler    |-> h,
                      auto       |-> auto,
                      pc         |-> IF auto /\ hasContainer THEN "awaiting" ELSE "done",
                      runsBefore |-> Len(runs),
                      clicks     |-> <<>>,
                      confirmDue |-> 0,
                      escaped    |-> FALSE]
    /\ sel' = IF auto /\ hasContainer
              THEN [pc |-> "reading", topElementIsJQuery |-> TRUE]
              ELSE sel
    /\ UNCHANGED <<page, runs>>
    /\ UNCHANGED <<ctaRun, dungeonRun>>
    /\ UNCHANGED histVars
    /\ UNCHANGED lockVars
    /\ UNCHANGED readVars
    /\ UNCHANGED prefVars
    /\ UNCHANGED handled

\* the continuation after the await, inside the try: the opponent is clicked and the
\* confirm timer set when the promise resolved with an element; a rejection is caught
AttackCaseResume ==
    /\ handlerRun.called
    /\ handlerRun.handler \in AttackHandlers
    /\ handlerRun.pc = "awaiting"
    /\ Len(runs) > handlerRun.runsBefore
    /\ LET run == runs[Len(runs)]
       IN  handlerRun' =
               IF ClicksOpponent(run)
               THEN [handlerRun EXCEPT !.pc = "confirming",
                                       !.clicks = <<[what |-> "attack", el |-> run.value]>>,
                                       !.confirmDue = now + ConfirmDelay]
               ELSE [handlerRun EXCEPT !.pc = "done",
                                       !.escaped = (run.outcome = "rejected"
                                                      /\ ~AwaitInsideTry)]
    /\ UNCHANGED <<ctaRun, dungeonRun>>
    /\ UNCHANGED histVars
    /\ UNCHANGED selVars
    /\ UNCHANGED lockVars
    /\ UNCHANGED readVars
    /\ UNCHANGED prefVars
    /\ UNCHANGED handled

\* the timer callback: CTA_SELECTORS.CONFIRM_ATTACK is clicked when it is an element
ConfirmTimerFires(hasConfirm) ==
    /\ handlerRun.called
    /\ handlerRun.handler \in AttackHandlers
    /\ handlerRun.pc = "confirming"
    /\ handlerRun.confirmDue <= now
    /\ handlerRun' =
           [handlerRun EXCEPT !.pc = "done",
                              !.clicks = IF hasConfirm
                                         THEN Append(@, [what |-> "confirm", el |-> Null])
                                         ELSE @]
    /\ UNCHANGED <<ctaRun, dungeonRun>>
    /\ UNCHANGED histVars
    /\ UNCHANGED selVars
    /\ UNCHANGED lockVars
    /\ UNCHANGED readVars
    /\ UNCHANGED prefVars
    /\ UNCHANGED handled

InitAttackCase ==
    /\ InitSelect
    /\ variant = "flat"
    /\ stored \in AttackScreenHistories

NextAttackCase ==
    \/ \E h \in AttackHandlers, auto \in BOOLEAN, hasContainer \in BOOLEAN :
           AttackCaseStart(h, auto, hasContainer)
    \/ \E lastError \in BOOLEAN : SelectGetCallback(lastError)
    \/ AttackCaseResume
    \/ Tick
    \/ \E hasConfirm \in BOOLEAN : ConfirmTimerFires(hasConfirm)

SpecAttackCase == InitAttackCase /\ [][NextAttackCase]_vars

\* the selection made in the cycle of the examined handler has settled
CycleSettled == handlerRun.called /\ Len(runs) > handlerRun.runsBefore

\* C35: the confirm click comes only after an opponent was selected and clicked in the
\* same cycle; when the selection resolves to null or is rejected neither click happens
\* and no error leaves the handler.
C35_ConfirmOnlyAfterAttackClick ==
    (handlerRun.called /\ handlerRun.handler \in AttackHandlers) =>
        /\ ~handlerRun.escaped
        /\ \A i \in 1..Len(handlerRun.clicks) :
              IF handlerRun.clicks[i].what = "confirm"
              THEN i = 2 /\ handlerRun.clicks[1].what = "attack"
              ELSE i = 1
        /\ handlerRun.clicks # <<>> =>
              /\ CycleSettled
              /\ runs[Len(runs)].outcome = "resolved"
              /\ runs[Len(runs)].value # Null
              /\ handlerRun.clicks[1].el = runs[Len(runs)].value
        /\ (CycleSettled /\ (runs[Len(runs)].outcome = "rejected"
                                \/ runs[Len(runs)].value = Null)) =>
              handlerRun.clicks = <<>>

\* C35 witness: the selection resolved with an element, it was clicked and the confirm
\* click followed a second later
C35_Witness ==
    /\ handlerRun.called
    /\ handlerRun.handler = "handleTurmaCase"
    /\ handlerRun.pc = "done"
    /\ Len(handlerRun.clicks) = 2
    /\ handlerRun.clicks[2].what = "confirm"
    /\ now >= ConfirmDelay

\* C35 witness of the silent path: the storage read failed, the promise was rejected,
\* the handler is done and has clicked nothing
C35_WitnessRejected ==
    /\ handlerRun.called
    /\ handlerRun.handler = "handleArenaCase"
    /\ handlerRun.pc = "done"
    /\ CycleSettled
    /\ runs[Len(runs)].outcome = "rejected"
    /\ handlerRun.clicks = <<>>

-----------------------------------------------------------------------------
(* Accounting of the report-keyed store *)

RECURSIVE SumAttackCount(_, _)
SumAttackCount(opponents, names) ==
    IF names = {} THEN 0
    ELSE LET n == CHOOSE x \in names : TRUE
         IN  opponents[n].attackCount + SumAttackCount(opponents, names \ {n})

NoRepeat(ids) == \A i, j \in 1..Len(ids) : ids[i] = ids[j] => i = j

\* C36: in the report-keyed variant, from the empty {reports, opponents} structure, the
\* number of entries of reports equals the sum of attackCount over the opponent records
\* after any sequence of calls, and no reportId occurs twice in a record's reportIds.
C36_ReportsMatchAttackCounts ==
    variant = "report" =>
        LET h == mem["pageA"]
        IN  /\ Cardinality(DOMAIN h.reports) =
                  SumAttackCount(h.opponents, DOMAIN h.opponents)
            /\ \A n \in DOMAIN h.opponents : NoRepeat(h.opponents[n].reportIds)

\* C36 witness: the same reportId was handed in twice, for two opponents: one report,
\* two opponent records, of which the second counts no attack
C36_Witness ==
    /\ variant = "report"
    /\ Len(calls) = 2
    /\ calls[1].reportId = calls[2].reportId
    /\ calls[1].opponent # calls[2].opponent
    /\ Cardinality(DOMAIN mem["pageA"].reports) = 1
    /\ Cardinality(DOMAIN mem["pageA"].opponents) = 2

-----------------------------------------------------------------------------
(* Frame of one fold *)

\* a step that makes one call, which does not throw and, where events carry an id,
\* brings an id seen in no earlier call
NewEventStep ==
    /\ Len(calls') = Len(calls) + 1
    /\ ~calls'[Len(calls')].threw
    /\ \/ variant = "flat"
       \/ \A j \in 1..Len(calls) :
             calls[j].threw \/ calls[j].reportId # calls'[Len(calls')].reportId

\* C37: a call for opponent X that folds a new event increases X's attackCount by
\* exactly 1 and leaves the records of all other opponents as they were.
C37_FoldTouchesOneOpponent ==
    [][NewEventStep =>
          LET X      == calls'[Len(calls')].opponent
              before == OpponentsOf(mem["pageA"])
              after  == OpponentsOf(mem'["pageA"])
          IN  /\ AttackCountIn(mem'["pageA"], X) = AttackCountIn(mem["pageA"], X) + 1
              /\ DOMAIN after = DOMAIN before \cup {X}
              /\ \A n \in DOMAIN before \ {X} : after[n] = before[n]]_vars

\* C37 witness: Ann was attacked once, then Bob: each record counts one attack
C37_Witness ==
    /\ Len(calls) = 2
    /\ calls[1].opponent = "Ann" /\ calls[2].opponent = "Bob"
    /\ FoldedCall(1) /\ FoldedCall(2)
    /\ AttackCountIn(mem["pageA"], "Ann") = 1
    /\ AttackCountIn(mem["pageA"], "Bob") = 1

-----------------------------------------------------------------------------
(* Settlement of the selectOptimalAttack promise *)

SelectBranches == {"invalid", "storage", "noattack", "novalid", "top", "random"}

\* C38: every call of selectOptimalAttack settles its promise exactly once, provided
\* the storage callback is invoked: a call with an invalid argument settles in the call
\* itself, any other call is pending until the callback runs and settles in it, on
\* each of its paths, with one resolve or one reject.
C38_SettlesExactlyOnce ==
    [][/\ (sel.pc = "idle" /\ sel' # sel /\ sel'.pc = "idle") =>
              /\ Len(runs') = Len(runs) + 1
              /\ runs'[Len(runs')].branch = "invalid"
              /\ runs'[Len(runs')].outcome = "rejected"
       /\ (sel.pc = "idle" /\ sel'.pc = "reading") => runs' = runs
       /\ sel.pc = "reading" =>
              /\ sel'.pc = "idle"
              /\ Len(runs') = Len(runs) + 1
              /\ runs'[Len(runs')].branch \in SelectBranches \ {"invalid"}
              /\ runs'[Len(runs')].outcome \in {"resolved", "rejected"}
       /\ \A k \in 1..Len(runs) : runs'[k] = runs[k]]_vars

\* C38 witness: two calls on one page have settled, one through the random pick and
\* one through the rejection of an invalid argument
C38_Witness ==
    /\ sel.pc = "idle"
    /\ Len(runs) = 2
    /\ \E k \in 1..2 : runs[k].branch = "random"
    /\ \E k \in 1..2 : runs[k].branch = "invalid"

-----------------------------------------------------------------------------
(* constants.js: the handleMutation kept in that file, with no unlock timer *)

\* one iteration of the forEach of onMutations: handleMutation(mutation) of constants.js
\* from its entry to its await.  The lock is taken, released again when
\* handleCTASelectors returns true, and the triggers run inside the promise executor;
\* rejects says that one of them threw before any resolve() was reached.
LegacyHandleMutation(cta, rejects) ==
    /\ batch # <<>>
    /\ batch' = Tail(batch)
    /\ invoked' = invoked + 1
    /\ LET addedNodes == Head(batch)
           id         == invoked + 1
           passed     == PassesGuard(addedNodes, timeLocked)
       IN  /\ timeLocked' = IF passed THEN cta # "clicked" ELSE timeLocked
           /\ microtasks' = IF passed
                            THEN Append(microtasks, [id |-> id, rejected |-> rejects])
                            ELSE microtasks
           /\ lastInvocation' = [called       |-> TRUE,
                                 id           |-> id,
                                 passed       |-> passed,
                                 clicked      |-> passed /\ cta = "clicked",
                                 triggerThrew |-> passed /\ rejects,
                                 returned     |-> IF passed THEN "pending" ELSE "false"]
    /\ UNCHANGED <<timers, now, forceReload, storedForceReload>>
    /\ UNCHANGED histVars
    /\ UNCHANGED selVars
    /\ UNCHANGED handled
    /\ UNCHANGED readVars
    /\ UNCHANGED prefVars
    /\ UNCHANGED screenVars

\* a handleMutation that wraps its await in try / catch, as the one of cooldowns.js does
ResumesAfterAwait_Caught(rejected) == TRUE

\* `const timeChanges = await timeChangesPromise;` stands outside any try: a rejected
\* promise makes the await throw and the statements after it are not run
ResumesAfterAwait(rejected) == ~rejected

\* the invocation at the head of the microtask queue resumes after its await:
\* `timeLocked = false` is run when the await returns
LegacyContinuation ==
    /\ batch = <<>>
    /\ microtasks # <<>>
    /\ microtasks' = Tail(microtasks)
    /\ timeLocked' = IF ResumesAfterAwait(Head(microtasks).rejected) THEN FALSE
                     ELSE timeLocked
    /\ lastInvocation' =
           IF lastInvocation.id = Head(microtasks).id
           THEN [lastInvocation EXCEPT
                    !.returned = IF ResumesAfterAwait(Head(microtasks).rejected)
                                 THEN "undefined" ELSE "rejected"]
           ELSE lastInvocation
    /\ UNCHANGED <<timers, batch, invoked, now, forceReload, storedForceReload>>
    /\ UNCHANGED histVars
    /\ UNCHANGED selVars
    /\ UNCHANGED handled
    /\ UNCHANGED readVars
    /\ UNCHANGED prefVars
    /\ UNCHANGED screenVars

InitLegacyLock == InitLock

NextLegacyLock ==
    \/ \E mutationsList \in MutationLists : OnMutations(mutationsList)
    \/ \E cta \in CtaOutcomes, rejects \in BOOLEAN : LegacyHandleMutation(cta, rejects)
    \/ LegacyContinuation

SpecLegacyLock == InitLegacyLock /\ [][NextLegacyLock]_vars

\* every invocation made so far has completed
AllCompleted == batch = <<>> /\ microtasks = <<>>

\* C39: in the handleMutation of constants.js, timeLocked is false again once every
\* handled mutation has completed, also when a time-based trigger threw.
C39_LegacyLockReleased == AllCompleted => ~timeLocked

====
